---- MODULE Spec2Model ----
(***************************************************************************)
(* Model of the multi-provider inference router                            *)
(* (backend/services/adapters.py) and of the build pipeline                *)
(* (backend/services/sdlc_builder.py).                                     *)
(*                                                                         *)
(* Spec      : one in-flight generate_text request on the shared router,   *)
(*             interleaved with refresh() from other threads.              *)
(* SpecBuild : one SDLCBuilder.build run, phase by phase.                  *)
(***************************************************************************)
EXTENDS Integers, Sequences, FiniteSets, TLC

VARIABLES
    env,          \* names of the environment variables that are set (os.environ)
    providers,    \* InferenceRouter.providers: the availability map
    pc,           \* position of the in-flight generate_text request
    prompt,       \* generate_text argument
    preference,   \* generate_text argument (<<>> models None / empty list)
    idx,          \* position in the loop the request is running
    strategies,   \* local list `strategies`
    k,            \* position in `for name in strategies`
    attempt,      \* attempt number of the running adapter call (tenacity)
    delays,       \* back-off sleeps (ms) of the running adapter call
    tried,        \* history: one record per candidate the loop has handled
    result,       \* value returned by generate_text
    mapsSeen,     \* history: every value self.providers had during the request
    fast_mode,    \* SDLCBuilder.fast_mode
    bpc,          \* position of the build
    phase,        \* index of the phase the build is in
    err,          \* exception the running phase has raised (str(e))
    logs,         \* local list `logs` of build
    raisedIn,     \* history: phases in whose try-block an exception was raised
    entered,      \* history: phases whose try-block was entered
    report,       \* value returned by build
    os_name,      \* os.name of the host
    fs,           \* paths of the files in the run directory
    persisted,    \* content of run_report.json in the run directory
    raisedAt,     \* history: where the exception that left build was raised
    now,          \* datetime.utcnow(), in seconds
    jobs,         \* _BUILD_JOBS (a dict keeps insertion order)
    lock,         \* holder of _BUILD_JOBS_LOCK
    jpc,          \* position of each /sdlc/build request and of its thread
    jprompt,      \* req.prompt of each /sdlc/build request
    started_at,   \* local started_at of each /sdlc/build request
    run_dir,      \* run directory of each job's build
    built,        \* history: how builder.build ended for each job
    disk,         \* files under runs_dir: who wrote each last
    ppc,          \* position of the polling request
    parg,         \* job_id argument of the polling request
    pjob,         \* the object the polling handler returned
    presp,        \* body of the response of the polling request
    task_response,\* body of the response of /task
    ex_text,      \* routed text generate_code extracts from
    ex_pc,        \* position of the extraction
    ex_files,     \* files mapping of generate_code's result
    dpc,          \* position of the running _detect_providers call
    probed,       \* outcome of the probe of the local Ollama endpoint
    cpc,          \* position of the in-flight classify_image request
    image,        \* classify_image argument, as its 32x32 thumbnail
    hf_seen,      \* what self.providers.get("hf") gave the request
    cattempt,     \* attempt number of the running _hf_classify call
    hosted,       \* history: how the hosted classifier's call ended
    cls_result,   \* value returned by classify_image
    gc_pc,        \* position of the in-flight generate_code request
    gc_result,    \* value returned by generate_code
    table,        \* the table of the CRUD requests (students, events, ...)
    rows,         \* rows of the table: id -> column values
    watch,        \* the id whose requests the history follows
    made,         \* history: payload the id was created with, until deleted
    updated,      \* history: the id was updated since it was created
    deleted,      \* history: the id was deleted at some time
    answered,     \* the last request about the id, and its response
    rpc,          \* position of the build whose recorded models are followed
    rprompt,      \* prompt of that build
    res_g,        \* local res_g of the requirements phase
    res_o,        \* local res_o of the requirements phase
    v0_attempt,   \* attempt number of the running _v0_generate_frontend call
    fe_resp,      \* local resp of the frontend phase
    rlogs,        \* what record() was called with: stage, success, models_used
    tpc,          \* position of the in-flight run_tool call
    tool,         \* run_tool argument
    tprompt,      \* run_tool argument
    called,       \* history: the providers the call has sent a request to
    tool_result   \* value returned by run_tool

routerVars == <<pc, prompt, preference, idx, strategies, k, attempt, delays,
                tried, result, mapsSeen>>
buildVars  == <<fast_mode, bpc, phase, err, logs, raisedIn, entered, report,
                os_name, fs, persisted, raisedAt>>
jobVars    == <<now, jobs, lock, jpc, jprompt, started_at, run_dir, built,
                disk, ppc, parg, pjob, presp>>
taskVars   == <<task_response>>
exVars     == <<ex_text, ex_pc, ex_files>>
detectVars == <<dpc, probed>>
visionVars == <<cpc, image, hf_seen, cattempt, hosted, cls_result>>
codeVars   == <<gc_pc, gc_result>>
crudVars   == <<table, rows, watch, made, updated, deleted, answered>>
reportVars == <<rpc, rprompt, res_g, res_o, v0_attempt, fe_resp, rlogs>>
toolVars   == <<tpc, tool, tprompt, called, tool_result>>
moreVars   == <<detectVars, visionVars, codeVars, crudVars, reportVars,
                toolVars>>
restVars   == <<jobVars, taskVars, exVars, moreVars>>
vars       == <<env, providers, routerVars, buildVars, restVars>>

None == "<None>"

\* Optional values: None, or a value
Nothing == {}

Some(v) == {v}

-----------------------------------------------------------------------------
(* Bounds of the model                                                     *)

MaxPrefLen == 2

Range(f) == { f[x] : x \in DOMAIN f }

SeqsUpTo(S, n) == UNION { [1..m -> S] : m \in 0..n }

\* names a caller may put in an arbitrary preference list
PrefNames == {"gemini", "ollama", "lovable"}

\* environments the router is run in
RouterEnvs == SUBSET {"GEMINI_API_KEY", "OPENAI_API_KEY"}

Prompts == { <<"h", "i">>, <<"a", "p", "p">> }

Replies == { <<"d", "o", "n", "e", "!">> }

Usages == {0, 9}

-----------------------------------------------------------------------------
(* Provider registry                                                       *)

ProviderIDs == {"openai", "gemini", "mistral", "groq", "hf", "perplexity",
                "ollama", "lovable", "stitch", "v0"}

ProbeResults == {"ok", "non2xx", "exception"}

\* bool(os.getenv(name, "unset")): a default that is truthy
HasEnv_TruthyDefault(e, name) == TRUE

\* bool(os.getenv(name))
HasEnv(e, name) == name \in e

_detect_providers(e, probe) ==
    LET hf_key == HasEnv(e, "HF_API_KEY") \/ HasEnv(e, "HUGGINGFACE_API_KEY")
        ollama_available == (probe = "ok")
    IN  [n \in ProviderIDs |->
            CASE n = "openai"     -> HasEnv(e, "OPENAI_API_KEY")
              [] n = "gemini"     -> HasEnv(e, "GEMINI_API_KEY")
              [] n = "mistral"    -> HasEnv(e, "MISTRAL_API_KEY")
              [] n = "groq"       -> HasEnv(e, "GROQ_API_KEY")
              [] n = "hf"         -> hf_key
              [] n = "perplexity" -> HasEnv(e, "PERPLEXITY_API_KEY")
              [] n = "ollama"     -> HasEnv(e, "OLLAMA_BASE_URL") \/ ollama_available
              [] n = "lovable"    -> TRUE
              [] n = "stitch"     -> TRUE
              [] n = "v0"         -> HasEnv(e, "V0_API_KEY") \/ HasEnv(e, "V0_DEV_API_KEY")]

\* self.providers.get(name): None (falsy) for a name that is not a key
Get(m, name) == IF name \in DOMAIN m THEN m[name] ELSE FALSE

-----------------------------------------------------------------------------
(* Router constants                                                        *)

DefaultOrder == <<"gemini", "perplexity", "hf", "mistral", "groq", "openai", "ollama">>

CodegenPreference == <<"gemini", "perplexity", "hf", "mistral", "groq", "openai">>

TaskPreference == <<"mistral", "groq", "hf", "ollama", "openai", "gemini", "perplexity">>

CodegenLabelOrder == <<"openai", "mistral", "groq", "hf", "ollama">>

\* the names the dispatch of generate_text has a branch for
Adapters == {"gemini", "perplexity", "hf", "mistral", "groq", "openai", "ollama"}

ModelOf(name) ==
    CASE name = "gemini"     -> "gemini-1.5-flash"
      [] name = "perplexity" -> "sonar-small-chat"
      [] name = "hf"         -> "Qwen2.5-7B-Instruct (inference)"
      [] name = "mistral"    -> "mistral-small-latest"
      [] name = "groq"       -> "llama-3.1-8b-instant"
      [] name = "openai"     -> "gpt-4o-mini"
      [] name = "ollama"     -> "codellama"

BaselinePrefix ==
    <<"[", "b", "a", "s", "e", "l", "i", "n", "e", "]", " ",
      "Y", "o", "u", " ", "a", "s", "k", "e", "d", ":", " ">>

\* f"[baseline] You asked: {prompt}"
BaselineOutput(p) == BaselinePrefix \o p

-----------------------------------------------------------------------------
(* Retry policy: @retry(wait=wait_exponential(multiplier=0.5, min=0.5,     *)
(* max=4), stop=stop_after_attempt(3)); delays in milliseconds             *)

\* stop_after_attempt(2): one attempt fewer
StopAfterAttempt_Two == 3 - 1

StopAfterAttempt == 3
WaitMultiplierMs == 500
WaitMinMs == 500
WaitMaxMs == 4000

RECURSIVE Pow2(_)
Pow2(n) == IF n <= 0 THEN 1 ELSE 2 * Pow2(n - 1)

Min2(a, b) == IF a < b THEN a ELSE b
Max2(a, b) == IF a > b THEN a ELSE b

\* sleep after the failed attempt number n
wait_exponential(n) ==
    Max2(Max2(0, WaitMinMs), Min2(WaitMultiplierMs * Pow2(n - 1), WaitMaxMs))

-----------------------------------------------------------------------------
(* Provider adapters: one HTTP attempt                                     *)

\* what the provider answers to one HTTP call
Responses == {"timeout", "non2xx", "malformed", "good"}

\* Outcome of the body of the decorated adapter for one response:
\*   "raise" an exception (tenacity retries), "pair" a (text, tokens) tuple,
\*   "bare" a value that is not a tuple.
AttemptResult(name, resp) ==
    CASE resp \in {"timeout", "non2xx"} -> "raise"   \* requests / raise_for_status
      [] resp = "good" -> "pair"
      [] resp = "malformed" ->
            CASE name = "gemini" -> "bare"           \* no candidates: return ""
              [] name \in {"hf", "ollama"} -> "pair" \* data.get(..., default)
              [] OTHER -> "raise"                    \* data["choices"][0]: KeyError

\* text the adapter extracts from the response
AdapterText(name, resp, reply) ==
    IF resp = "good" THEN reply
    ELSE IF name = "hf" THEN <<"{", "}">>            \* str(data)
    ELSE <<>>                                        \* data.get("response", "")

\* The total token count the adapter finds in the response: usage.total_tokens
\* or usageMetadata.totalTokenCount; the adapters of hf and ollama look for
\* none, the answers of these two carry no total.
ReportedUsage(name, usage) ==
    IF name \in {"hf", "ollama"} THEN 0 ELSE usage

\* every adapter estimates the count from the text
AdapterTokens_Estimated(name, text, usage) ==
    Len(text) \div 4

\* token accounting of the adapter
AdapterTokens(name, text, usage) ==
    IF name \in {"hf", "ollama"} THEN Len(text) \div 4
    ELSE IF usage # 0 THEN usage ELSE Len(text) \div 4

-----------------------------------------------------------------------------
(* generate_text                                                           *)

Preferences ==
    SeqsUpTo(PrefNames, MaxPrefLen) \cup {CodegenPreference, TaskPreference}

InFlight == {"pref", "default", "try", "pick"}

\* every branch labels its result with the first candidate of the list
ProviderResult_FirstCandidate(name, text, tokens) ==
    [output |-> text, provider |-> strategies[1], model |-> ModelOf(strategies[1]),
     tokens |-> tokens, fallback |-> FALSE]

\* the dict a branch of the dispatch returns
ProviderResult(name, text, tokens) ==
    [output |-> text, provider |-> name, model |-> ModelOf(name),
     tokens |-> tokens, fallback |-> FALSE]

\* the dict built after the loop
FallbackResult(p, label) ==
    [output |-> BaselineOutput(p), provider |-> label[1], model |-> label[2],
     tokens |-> Len(BaselineOutput(p)) \div 4, fallback |-> TRUE]

\* the gemini branch assigns its result and does not return it
LoopAction_NoReturn(name, outcome) ==
    CASE outcome = "pair"       -> IF name = "gemini" THEN "continue" ELSE "return"
      [] outcome = "bare"       -> "continue"
      [] outcome = "RetryError" -> "continue"
      [] outcome = "nobranch"   -> "continue"

\* the handler catches the adapters' RetryError only
LoopAction_CatchRetryError(name, outcome) ==
    CASE outcome = "pair"       -> "return"
      [] outcome = "bare"       -> "propagate"
      [] outcome = "RetryError" -> "continue"
      [] outcome = "nobranch"   -> "continue"

\* What the body of `for name in strategies` does with what the candidate
\* gave: "pair" (the adapter returned a tuple), "bare" (unpacking the return
\* value raises ValueError), "RetryError" (the adapter raised on its last
\* attempt), "nobranch" (no `if name == ...` matches).
LoopAction(name, outcome) ==
    CASE outcome = "pair"       -> "return"
      [] outcome = "bare"       -> "continue"     \* except Exception: continue
      [] outcome = "RetryError" -> "continue"     \* except Exception: continue
      [] outcome = "nobranch"   -> "continue"

\* usage: the total token count the adapter found in the response (0: none)
Handled(name, n, ds, outcome, text, tokens, usage) ==
    [name |-> name, attempts |-> n, delays |-> ds, outcome |-> outcome,
     text |-> text, tokens |-> tokens, usage |-> usage]

\* control leaves the body of the loop for candidate k
AfterCandidate(name, n, ds, outcome, text, tokens, usage) ==
    LET act == LoopAction(name, outcome) IN
    /\ tried' = Append(tried, Handled(name, n, ds, outcome, text, tokens, usage))
    /\ attempt' = 1
    /\ delays' = <<>>
    /\ IF act = "return"
       THEN /\ result' = ProviderResult(name, text, tokens)
            /\ pc' = "done"
            /\ UNCHANGED <<k, idx>>
       ELSE IF act = "continue"
       THEN /\ k' = k + 1
            /\ pc' = IF k + 1 > Len(strategies) THEN "pick" ELSE "try"
            /\ idx' = 1
            /\ UNCHANGED result
       ELSE /\ pc' = "raised"
            /\ UNCHANGED <<k, idx, result>>

generate_text_begin ==
    /\ pc = "idle"
    /\ \E p \in Prompts, pr \in Preferences :
        /\ prompt' = p
        /\ preference' = pr
        /\ pc' = IF pr # <<>> THEN "pref" ELSE "default"
    /\ strategies' = <<>>
    /\ idx' = 1
    /\ k' = 1
    /\ attempt' = 1
    /\ delays' = <<>>
    /\ tried' = <<>>
    /\ result' = None
    /\ mapsSeen' = {providers}
    /\ UNCHANGED <<env, providers, buildVars, restVars>>

PreferenceLoop ==
    /\ pc = "pref"
    /\ LET name == preference[idx] IN
        strategies' = IF Get(providers, name) THEN Append(strategies, name)
                      ELSE strategies
    /\ IF idx = Len(preference)
       THEN pc' = "default" /\ idx' = 1
       ELSE pc' = pc /\ idx' = idx + 1
    /\ UNCHANGED <<env, providers, prompt, preference, k, attempt, delays,
                   tried, result, mapsSeen, buildVars, restVars>>

DefaultLoop ==
    /\ pc = "default"
    /\ LET name == DefaultOrder[idx] IN
        strategies' = IF Get(providers, name) /\ name \notin Range(strategies)
                      THEN Append(strategies, name)
                      ELSE strategies
    /\ IF idx = Len(DefaultOrder)
       THEN /\ pc' = IF Len(strategies') = 0 THEN "pick" ELSE "try"
            /\ idx' = 1
       ELSE pc' = pc /\ idx' = idx + 1
    /\ UNCHANGED <<env, providers, prompt, preference, k, attempt, delays,
                   tried, result, mapsSeen, buildVars, restVars>>

TryCandidate ==
    /\ pc = "try"
    /\ LET name == strategies[k] IN
        IF name \notin Adapters
        THEN AfterCandidate(name, 0, <<>>, "nobranch", <<>>, 0, 0)
        ELSE \E resp \in Responses, reply \in Replies, usage \in Usages :
            LET r    == AttemptResult(name, resp)
                text == AdapterText(name, resp, reply)
            IN  IF r = "raise"
                THEN IF attempt < StopAfterAttempt
                     THEN /\ attempt' = attempt + 1
                          /\ delays' = Append(delays, wait_exponential(attempt))
                          /\ UNCHANGED <<pc, idx, k, tried, result>>
                     ELSE AfterCandidate(name, attempt, delays, "RetryError", <<>>, 0, 0)
                ELSE AfterCandidate(name, attempt, delays, r, text,
                                    AdapterTokens(name, text, usage),
                                    ReportedUsage(name, usage))
    /\ UNCHANGED <<env, providers, prompt, preference, strategies, mapsSeen,
                   buildVars, restVars>>

\* _pick_provider_for_codegen, one self.providers.get per step, and the
\* return of the baseline result
PickLabel ==
    /\ pc = "pick"
    /\ LET name == CodegenLabelOrder[idx] IN
        IF Get(providers, name)
        THEN /\ result' = FallbackResult(prompt, <<name, "auto">>)
             /\ pc' = "done"
             /\ UNCHANGED idx
        ELSE IF idx = Len(CodegenLabelOrder)
        THEN /\ result' = FallbackResult(prompt, <<"local", "baseline">>)
             /\ pc' = "done"
             /\ UNCHANGED idx
        ELSE /\ idx' = idx + 1
             /\ UNCHANGED <<pc, result>>
    /\ UNCHANGED <<env, providers, prompt, preference, strategies, k, attempt,
                   delays, tried, mapsSeen, buildVars, restVars>>

\* the caller has the returned dict; the frame and its locals are gone
generate_text_return ==
    /\ pc = "done"
    /\ pc' = "idle"
    /\ prompt' = <<>>
    /\ preference' = <<>>
    /\ idx' = 1
    /\ strategies' = <<>>
    /\ k' = 1
    /\ attempt' = 1
    /\ delays' = <<>>
    /\ tried' = <<>>
    /\ result' = None
    /\ mapsSeen' = {}
    /\ UNCHANGED <<env, providers, buildVars, restVars>>

\* ids db.save_log gives the log rows
LogIds == {1}

\* db.save_log(...) inserts a row: it returns the row's id or raises
SaveLogOutcomes == {"ok", "OperationalError"}

\* the dict run_text_task returns
TaskResponse(response, log_id) ==
    [output |-> response.output, log_id |-> log_id]

\* POST /task: router.generate_text(req.prompt, preference=preference)
run_text_task ==
    /\ pc = "idle"
    /\ \E p \in Prompts : prompt' = p
    /\ preference' = TaskPreference
    /\ pc' = "pref"
    /\ strategies' = <<>>
    /\ idx' = 1
    /\ k' = 1
    /\ attempt' = 1
    /\ delays' = <<>>
    /\ tried' = <<>>
    /\ result' = None
    /\ mapsSeen' = {providers}
    /\ task_response' = Nothing
    /\ UNCHANGED <<env, providers, buildVars, jobVars, exVars, moreVars>>

\* POST /task after router.generate_text(req.prompt, preference) returned:
\* save_log, index_text, return; an exception becomes a 500 response
run_text_task_return ==
    /\ pc = "done"
    /\ preference = TaskPreference
    /\ \E o \in SaveLogOutcomes, id \in LogIds :
        task_response' =
            IF o = "ok" THEN Some(TaskResponse(result, id))
            ELSE Some([detail |-> "Internal Server Error"])
    /\ pc' = "idle"
    /\ prompt' = <<>>
    /\ preference' = <<>>
    /\ idx' = 1
    /\ strategies' = <<>>
    /\ k' = 1
    /\ attempt' = 1
    /\ delays' = <<>>
    /\ tried' = <<>>
    /\ result' = None
    /\ mapsSeen' = {}
    /\ UNCHANGED <<env, providers, buildVars, jobVars, exVars, moreVars>>

\* refresh() called by another thread (GET /providers, a starting build)
refresh ==
    /\ \E probe \in ProbeResults : providers' = _detect_providers(env, probe)
    /\ mapsSeen' = IF pc \in InFlight THEN mapsSeen \cup {providers'} ELSE mapsSeen
    /\ UNCHANGED <<env, pc, prompt, preference, idx, strategies, k, attempt,
                   delays, tried, result, buildVars, restVars>>

BuildIdle ==
    /\ fast_mode = FALSE
    /\ bpc = "idle"
    /\ phase = 1
    /\ err = None
    /\ logs = <<>>
    /\ raisedIn = {}
    /\ entered = {}
    /\ report = None
    /\ os_name = "posix"
    /\ fs = {}
    /\ persisted = None
    /\ raisedAt = None

RouterIdle ==
    /\ pc = "idle"
    /\ prompt = <<>>
    /\ preference = <<>>
    /\ idx = 1
    /\ strategies = <<>>
    /\ k = 1
    /\ attempt = 1
    /\ delays = <<>>
    /\ tried = <<>>
    /\ result = None
    /\ mapsSeen = {}

\* uuid.uuid4().hex of the requests
JobIds == {1, 2}

\* the polling handler has returned no object yet
NoObject == [kind |-> "none", ref |-> Nothing, dir |-> Nothing, jobs_count |-> 0]

\* no /sdlc/build request yet, no poll
JobsIdle ==
    /\ now = 0
    /\ jobs = <<>>
    /\ lock = Nothing
    /\ jpc = [j \in JobIds |-> "idle"]
    /\ jprompt = [j \in JobIds |-> <<>>]
    /\ started_at = [j \in JobIds |-> 0]
    /\ run_dir = [j \in JobIds |-> Nothing]
    /\ built = [j \in JobIds |-> "no"]
    /\ disk = {}
    /\ ppc = "idle"
    /\ parg = Nothing
    /\ pjob = NoObject
    /\ presp = Nothing

TaskIdle == task_response = Nothing

ExtractIdle ==
    /\ ex_text = <<>>
    /\ ex_pc = "idle"
    /\ ex_files = Nothing

DetectIdle ==
    /\ dpc = "idle"
    /\ probed = Nothing

VisionIdle ==
    /\ cpc = "idle"
    /\ image = Nothing
    /\ hf_seen = FALSE
    /\ cattempt = 1
    /\ hosted = "none"
    /\ cls_result = Nothing

CodeIdle ==
    /\ gc_pc = "idle"
    /\ gc_result = Nothing

\* largest id the table gives in the model
MaxRowId == 2

RowIds == 1..MaxRowId

\* the tables are empty and no CRUD request was made
CrudIdle ==
    /\ table = "students"
    /\ rows = <<>>
    /\ watch = 1
    /\ made = Nothing
    /\ updated = FALSE
    /\ deleted = FALSE
    /\ answered = Nothing

ReportIdle ==
    /\ rpc = "idle"
    /\ rprompt = <<>>
    /\ res_g = Nothing
    /\ res_o = Nothing
    /\ v0_attempt = 1
    /\ fe_resp = Nothing
    /\ rlogs = <<>>

\* no run_tool call is in flight
ToolIdle ==
    /\ tpc = "idle"
    /\ tool = None
    /\ tprompt = <<>>
    /\ called = {}
    /\ tool_result = Nothing

MoreIdle ==
    DetectIdle /\ VisionIdle /\ CodeIdle /\ CrudIdle /\ ReportIdle /\ ToolIdle

RestIdle == JobsIdle /\ TaskIdle /\ ExtractIdle /\ MoreIdle

\* __init__: the map is detected once
Init ==
    /\ env \in RouterEnvs
    /\ \E probe \in ProbeResults : providers = _detect_providers(env, probe)
    /\ RouterIdle
    /\ BuildIdle
    /\ RestIdle

Next ==
    \/ generate_text_begin
    \/ PreferenceLoop
    \/ DefaultLoop
    \/ TryCandidate
    \/ PickLabel
    \/ generate_text_return
    \/ refresh

Spec == Init /\ [][Next]_vars

\* the requests of POST /task alone
NextTask ==
    \/ run_text_task
    \/ PreferenceLoop
    \/ DefaultLoop
    \/ TryCandidate
    \/ PickLabel
    \/ run_text_task_return
    \/ refresh

SpecTask == Init /\ [][NextTask]_vars

-----------------------------------------------------------------------------
(* SDLCBuilder.build                                                       *)

Phases == <<"requirements", "backend", "frontend", "deployment", "documentation">>

\* environments a build is run in
BuildEnvs == SUBSET {"GEMINI_API_KEY", "V0_API_KEY"}

\* str(e) of what the body of a phase can raise
PhaseErrors(stage) ==
    CASE stage = "backend"  -> {"OSError", "JSONDecodeError"}  \* _write_text, generate_code
      [] stage = "frontend" -> {"OSError", "AttributeError"}   \* _write_text, files.items()
      [] OTHER              -> {"OSError"}                      \* _write_text, os.makedirs

\* metrics.log_stage appends to logs/build.log (and logs/errors.log) and
\* inserts into logs/audit.sqlite; each of them can fail
LogStageOutcomes == {"ok", "OSError", "OperationalError"}

\* the dict record() appends to logs
StageRecord(stage, success, errors) ==
    [stage |-> stage, success |-> success, errors |-> errors]

\* position after phase number p is over
AfterPhase(p) ==
    IF p = Len(Phases) THEN "report"
    ELSE IF Phases[p] = "deployment" /\ ~fast_mode THEN "diagnostics"
    ELSE "body"

(* Paths are sequences of names and separators, relative to the run        *)
(* directory: <<"src", "/", "App.jsx">>.                                    *)

\* os.sep
Sep == IF os_name = "nt" THEN "\\" ELSE "/"

\* os.path.join(a, b) for a relative b
join(a, b) == a \o <<Sep>> \o b

\* rel.replace("\\", "/")
Normalize(p) == [a \in DOMAIN p |-> IF p[a] = "\\" THEN "/" ELSE p[a]]

\* the file a path names: on nt both "\\" and "/" separate names, on posix
\* a backslash is a character of a name
OnDisk(p) == IF os_name = "nt" THEN Normalize(p) ELSE p

\* os.path.exists(p)
Exists(files, p) == OnDisk(p) \in files

backend_root == <<"backend">>

frontend_root == <<"frontend">>

\* files mappings (their keys, in order) generate_code returns for the backend
BackendFileKeys ==
    { <<>>,
      << <<"main.py">> >>,
      << <<"routes", "/", "items.py">> >>,
      << <<"main.py">>, <<"routes", "/", "items.py">> >> }

\* files mappings (their keys, in order) v0 returns for the frontend
FrontendFileKeys ==
    { <<>>,
      << <<"package.json">> >>,
      << <<"src", "/", "App.jsx">> >>,
      << <<"src", "\\", "App.jsx">> >> }

\* what the providers give a phase: the exception the calls of the phase
\* raise before the first write (None: they return), and the keys of the
\* files mapping they return
PhaseInputs(stage) ==
    CASE stage = "backend" ->
            { [raises |-> "JSONDecodeError", keys |-> <<>>] }
            \cup { [raises |-> None, keys |-> ks] : ks \in BackendFileKeys }
      [] stage = "frontend" ->
            IF (~fast_mode) /\ Get(providers, "v0")
            THEN { [raises |-> "AttributeError", keys |-> <<>>] }
                 \cup { [raises |-> None, keys |-> ks] : ks \in FrontendFileKeys }
            ELSE { [raises |-> None, keys |-> <<>>] }
      [] OTHER -> { [raises |-> None, keys |-> <<>>] }

\* the elements of seq that pass Keep, in order
RECURSIVE Missing(_, _, _)
Missing(seq, root, files) ==
    IF seq = <<>> THEN <<>>
    ELSE IF Exists(files, join(root, Head(seq)))
         THEN Missing(Tail(seq), root, files)
         ELSE <<join(root, Head(seq))>> \o Missing(Tail(seq), root, files)

BackendEssentials ==
    << <<"main.py">>, <<"requirements.txt">>, join(<<"tests">>, <<"test_health.py">>) >>

FrontendEssentials ==
    << <<"package.json">>, <<"tailwind.config.js">>, <<"postcss.config.js">>,
       <<"vite.config.js">>, <<"index.html">>,
       join(<<"src">>, <<"main.jsx">>), join(<<"src">>, <<"index.css">>),
       join(<<"src">>, <<"App.jsx">>),
       join(join(<<"src">>, <<"components">>), <<"ApiStatus.jsx">>),
       join(join(<<"src">>, <<"components">>), <<"EndpointCard.jsx">>) >>

\* ensure(rel_path, content) for each essential file, in order: the paths it
\* writes, given the set files_created of normalized names
RECURSIVE Ensured(_, _)
Ensured(seq, files_created) ==
    IF seq = <<>> THEN <<>>
    ELSE IF Normalize(Head(seq)) \in files_created
         THEN Ensured(Tail(seq), files_created)
         ELSE <<join(frontend_root, Head(seq))>>
              \o Ensured(Tail(seq), files_created \cup {Normalize(Head(seq))})

\* the paths the try-block of a phase writes, in order, when no write fails
PhaseWrites(stage, keys, files) ==
    CASE stage = "requirements" ->
            << join(<<"requirements">>, <<"requirements.md">>),
               join(<<"requirements">>, <<"requirements.json">>) >>
      [] stage = "backend" ->
            LET given == [a \in DOMAIN keys |-> join(backend_root, keys[a])]
                after == files \cup { OnDisk(given[a]) : a \in DOMAIN given }
            IN  given \o Missing(BackendEssentials, backend_root, after)
                \o << <<"status.json">> >>
      [] stage = "frontend" ->
            LET given == [a \in DOMAIN keys |-> join(frontend_root, keys[a])]
                files_created == { Normalize(keys[a]) : a \in DOMAIN keys }
            IN  given \o Ensured(FrontendEssentials, files_created)
      [] stage = "deployment" ->
            << <<"pytest.ini">>, <<"Dockerfile">>, <<"docker-compose.yml">>,
               join(frontend_root, <<"Dockerfile">>),
               join(join(<<".github">>, <<"workflows">>), <<"deploy.yml">>) >>
      [] stage = "documentation" ->
            << <<"README.md">>, <<"mkdocs.yml">>, join(<<"docs">>, <<"index.md">>) >>

\* the writes of a phase at which a failure of the disk is tried
FailAt(w) == {1, Len(w)}

\* self.router.refresh(); run_dir = self._mk_run_dir(...)
build_begin ==
    /\ bpc = "idle"
    /\ \E probe \in ProbeResults : providers' = _detect_providers(env, probe)
    /\ \E mk \in {"ok", "OSError"} :
        /\ bpc' = IF mk = "ok" THEN "body" ELSE "raised"
        /\ raisedAt' = IF mk = "ok" THEN raisedAt ELSE "mk_run_dir"
    /\ UNCHANGED <<env, routerVars, restVars, fast_mode, phase, err, logs, raisedIn,
                   entered, report, os_name, fs, persisted>>

\* the statements of the try-block of a phase before its record(...) call
PhaseBody ==
    /\ bpc = "body"
    /\ entered' = entered \cup {phase}
    /\ \E inp \in PhaseInputs(Phases[phase]) :
        IF inp.raises # None
        THEN /\ inp.raises \in PhaseErrors(Phases[phase])
             /\ bpc' = "except"
             /\ err' = inp.raises
             /\ raisedIn' = raisedIn \cup {phase}
             /\ UNCHANGED fs
        ELSE LET w == PhaseWrites(Phases[phase], inp.keys, fs) IN
             \/ /\ bpc' = "record"
                /\ fs' = fs \cup { OnDisk(w[a]) : a \in DOMAIN w }
                /\ UNCHANGED <<err, raisedIn>>
             \/ \E j \in FailAt(w) :
                /\ "OSError" \in PhaseErrors(Phases[phase])
                /\ bpc' = "except"
                /\ fs' = fs \cup { OnDisk(w[a]) : a \in 1..(j - 1) }
                /\ err' = "OSError"
                /\ raisedIn' = raisedIn \cup {phase}
    /\ UNCHANGED <<env, providers, routerVars, restVars, fast_mode, phase, logs, report,
                   os_name, persisted, raisedAt>>

\* record(stage, True, ...) as the last statement of the try-block
RecordSuccess ==
    /\ bpc = "record"
    /\ logs' = Append(logs, StageRecord(Phases[phase], TRUE, None))
    /\ \E o \in LogStageOutcomes :
        IF o = "ok"
        THEN /\ bpc' = AfterPhase(phase)
             /\ phase' = IF phase < Len(Phases) /\ AfterPhase(phase) = "body"
                         THEN phase + 1 ELSE phase
             /\ UNCHANGED <<err, raisedIn>>
        ELSE /\ bpc' = "except"
             /\ err' = o
             /\ raisedIn' = raisedIn \cup {phase}
             /\ UNCHANGED phase
    /\ UNCHANGED <<env, providers, routerVars, restVars, fast_mode, entered, report,
                   os_name, fs, persisted, raisedAt>>

\* except Exception as e: record(stage, False, ..., str(e))
RecordFailure ==
    /\ bpc = "except"
    /\ logs' = Append(logs, StageRecord(Phases[phase], FALSE, err))
    /\ \E o \in LogStageOutcomes :
        IF o = "ok"
        THEN /\ bpc' = AfterPhase(phase)
             /\ phase' = IF phase < Len(Phases) /\ AfterPhase(phase) = "body"
                         THEN phase + 1 ELSE phase
             /\ err' = None
             /\ UNCHANGED raisedAt
        ELSE /\ bpc' = "raised"       \* raised in the handler: leaves build
             /\ err' = o
             /\ raisedAt' = "handler"
             /\ UNCHANGED phase
    /\ UNCHANGED <<env, providers, routerVars, restVars, fast_mode, raisedIn, entered,
                   report, os_name, fs, persisted>>

\* auto diagnostics: every exception is swallowed, nothing is appended to logs
Diagnostics ==
    /\ bpc = "diagnostics"
    /\ ~fast_mode
    /\ bpc' = "body"
    /\ phase' = phase + 1
    /\ UNCHANGED <<env, providers, routerVars, restVars, fast_mode, err, logs, raisedIn,
                   entered, report, os_name, fs, persisted, raisedAt>>

\* report = {...}; self._write_text(run_report.json); return report
WriteReport ==
    /\ bpc = "report"
    /\ \E w \in {"ok", "OSError"} :
        IF w = "ok"
        THEN /\ bpc' = "returned"
             /\ report' = [summary |-> "Full SDLC build completed", logs |-> logs]
             /\ persisted' = report'
             /\ fs' = fs \cup { <<"run_report.json">> }
             /\ UNCHANGED <<err, raisedAt>>
        ELSE /\ bpc' = "raised"
             /\ err' = w
             /\ raisedAt' = "report"
             /\ UNCHANGED <<report, persisted, fs>>
    /\ UNCHANGED <<env, providers, routerVars, restVars, fast_mode, phase, logs,
                   raisedIn, entered, os_name>>

InitBuild ==
    /\ env \in BuildEnvs
    /\ \E probe \in ProbeResults : providers = _detect_providers(env, probe)
    /\ RouterIdle
    /\ fast_mode \in BOOLEAN
    /\ os_name \in {"posix", "nt"}
    /\ bpc = "idle"
    /\ phase = 1
    /\ err = None
    /\ logs = <<>>
    /\ raisedIn = {}
    /\ entered = {}
    /\ report = None
    /\ fs = {}
    /\ persisted = None
    /\ raisedAt = None
    /\ RestIdle

NextBuild ==
    \/ build_begin
    \/ PhaseBody
    \/ RecordSuccess
    \/ RecordFailure
    \/ Diagnostics
    \/ WriteReport

SpecBuild == InitBuild /\ [][NextBuild]_vars

-----------------------------------------------------------------------------
(* /sdlc/build, /sdlc/status, /sdlc/report and the job registry (main.py)  *)

\* values of the clock (seconds)
Seconds == {0, 1}

\* the threads that take _BUILD_JOBS_LOCK
Worker(j) == <<"job", j>>

StatusPoll == <<"sdlc_status">>

ReportPoll == <<"sdlc_report">>

\* job_id arguments of the polling requests
PolledIds == {1}

\* prompts of the /sdlc/build requests
JobPrompts == { <<"A", " ", "b", "!">>, <<"b", " ">> }

\* str.lower() on the characters of the prompts
Lower(c) == CASE c = "A" -> "a" [] c = "B" -> "b" [] OTHER -> c

\* c.isalnum() or c in ("-", "_", " ")
KeepChar(c) == c \in {"a", "b", "A", "B", "-", "_", " "}

\* str.strip()
RECURSIVE LStrip(_)
LStrip(s) == IF s # <<>> /\ Head(s) = " " THEN LStrip(Tail(s)) ELSE s

RECURSIVE RStrip(_)
RStrip(s) ==
    IF s # <<>> /\ s[Len(s)] = " " THEN RStrip(SubSeq(s, 1, Len(s) - 1)) ELSE s

Strip(s) == RStrip(LStrip(s))

\* str.replace(a, b) for one-character a and b
Replace(s, a, b) == [c \in DOMAIN s |-> IF s[c] = a THEN b ELSE s[c]]

\* slug[:40]
SlugMax == 40

Slug(title) ==
    LET lowered == [c \in DOMAIN title |-> Lower(title[c])]
        slug == Replace(Strip(SelectSeq(lowered, KeepChar)), " ", "-")
    IN  SubSeq(slug, 1, Min2(SlugMax, Len(slug)))

\* the path _mk_run_dir makes at second ts: f"{ts}-{slug[:40]}"
_mk_run_dir(ts, title) == <<ts, Slug(title)>>

\* open(path, "w") and write: the file now holds what by wrote
WriteFile(d, dir, path, by) ==
    { f \in d : ~(f.dir = dir /\ f.path = path) }
    \cup { [dir |-> dir, path |-> path, by |-> by] }

HasJob(j) == \E a \in DOMAIN jobs : jobs[a].job_id = j

\* position of job j in the registry
JobIndex(j) == CHOOSE a \in DOMAIN jobs : jobs[a].job_id = j

\* max(_BUILD_JOBS.values(), key=started_at): the first of the greatest
Latest ==
    CHOOSE a \in DOMAIN jobs :
        \A b \in DOMAIN jobs :
            /\ jobs[b].started_at <= jobs[a].started_at
            /\ b < a => jobs[b].started_at < jobs[a].started_at

\* the clock advances
Tick ==
    /\ now + 1 \in Seconds
    /\ now' = now + 1
    /\ UNCHANGED <<env, providers, routerVars, buildVars, taskVars, exVars, moreVars,
                   jobs, lock, jpc, jprompt, started_at, run_dir, built, disk,
                   ppc, parg, pjob, presp>>

\* sdlc_build up to the with-block of _BUILD_JOBS_LOCK (ids are handed out in order)
sdlc_build(j) ==
    /\ jpc[j] = "idle"
    /\ \A a \in JobIds : a < j => jpc[a] # "idle"
    /\ \E p \in JobPrompts : jprompt' = [jprompt EXCEPT ![j] = p]
    /\ started_at' = [started_at EXCEPT ![j] = now]
    /\ jpc' = [jpc EXCEPT ![j] = "register_wait"]
    /\ UNCHANGED <<env, providers, routerVars, buildVars, taskVars, exVars, moreVars,
                   now, jobs, lock, run_dir, built, disk, ppc, parg, pjob, presp>>

\* position inside each with-block of _BUILD_JOBS_LOCK in sdlc_build and _run_build
Inside(position) ==
    CASE position = "register_wait"  -> "register"
      [] position = "completed_wait" -> "set_status_completed"
      [] position = "failed_wait"    -> "set_status_failed"

\* with _BUILD_JOBS_LOCK: blocks until the lock is free
Acquire(j) ==
    /\ jpc[j] \in {"register_wait", "completed_wait", "failed_wait"}
    /\ lock = Nothing
    /\ lock' = Some(Worker(j))
    /\ jpc' = [jpc EXCEPT ![j] = Inside(jpc[j])]
    /\ UNCHANGED <<env, providers, routerVars, buildVars, taskVars, exVars, moreVars,
                   now, jobs, jprompt, started_at, run_dir, built, disk,
                   ppc, parg, pjob, presp>>

\* _BUILD_JOBS[job_id] = {...}, then the lock is released
RegisterJob(j) ==
    /\ jpc[j] = "register"
    /\ jobs' = Append(jobs, [job_id      |-> j,
                             status      |-> "running",
                             prompt_len  |-> Len(jprompt[j]),
                             started_at  |-> started_at[j],
                             finished_at |-> Nothing,
                             run_dir     |-> Nothing,
                             error       |-> Nothing])
    /\ lock' = Nothing
    /\ jpc' = [jpc EXCEPT ![j] = "start"]
    /\ UNCHANGED <<env, providers, routerVars, buildVars, taskVars, exVars, moreVars,
                   now, jprompt, started_at, run_dir, built, disk,
                   ppc, parg, pjob, presp>>

\* t = threading.Thread(target=_run_build, ...); t.start()
thread_start(j) ==
    /\ jpc[j] = "start"
    /\ jpc' = [jpc EXCEPT ![j] = "build"]
    /\ UNCHANGED <<env, providers, routerVars, buildVars, taskVars, exVars, moreVars,
                   now, jobs, lock, jprompt, started_at, run_dir, built, disk,
                   ppc, parg, pjob, presp>>

\* builder.build(prompt): run_dir = self._mk_run_dir(prompt[:60] or "build")
mk_run_dir(j) ==
    /\ jpc[j] = "build"
    /\ \E mk \in {"ok", "OSError"} :
        IF mk = "ok"
        THEN /\ run_dir' = [run_dir EXCEPT ![j] = Some(_mk_run_dir(now, jprompt[j]))]
             /\ jpc' = [jpc EXCEPT ![j] = "phases"]
             /\ UNCHANGED built
        ELSE /\ built' = [built EXCEPT ![j] = "raised"]
             /\ jpc' = [jpc EXCEPT ![j] = "failed_wait"]
             /\ UNCHANGED run_dir
    /\ UNCHANGED <<env, providers, routerVars, buildVars, taskVars, exVars, moreVars,
                   now, jobs, lock, jprompt, started_at, disk,
                   ppc, parg, pjob, presp>>

\* what the rest of builder.build does to the run directory: the backend
\* phase writes status.json unless it fails, the end writes run_report.json;
\* "raise": an exception leaves build
BuildOutcomes == {"all", "backend_failed", "raise"}

\* builder.build(prompt) from its first phase to its return
build_phases(j) ==
    /\ jpc[j] = "phases"
    /\ \E d \in run_dir[j], o \in BuildOutcomes :
        LET by == <<"build", j>>
            backend == IF o = "all" THEN WriteFile(disk, d, "status.json", by)
                       ELSE disk
        IN  IF o = "raise"
            THEN /\ built' = [built EXCEPT ![j] = "raised"]
                 /\ jpc' = [jpc EXCEPT ![j] = "failed_wait"]
                 /\ disk' = backend
            ELSE /\ built' = [built EXCEPT ![j] = "returned"]
                 /\ jpc' = [jpc EXCEPT ![j] = "persist"]
                 /\ disk' = WriteFile(backend, d, "run_report.json", by)
    /\ UNCHANGED <<env, providers, routerVars, buildVars, taskVars, exVars, moreVars,
                   now, jobs, lock, jprompt, started_at, run_dir,
                   ppc, parg, pjob, presp>>

\* the with-block that sets completed placed in the try-block after the
\* write instead of in `finally`: a failed write passes it by
AfterWrite_NoFinally(w) == IF w = "ok" THEN "completed_wait" ELSE "end"

\* where _run_build goes after the write of status.json: the except-clause
\* swallows the exception and the finally-block runs either way
AfterWrite(w) == "completed_wait"

\* _run_build after build returned: status_path.write_text(...); an exception
\* of the write is logged and swallowed
persist_status(j) ==
    /\ jpc[j] = "persist"
    /\ \E d \in run_dir[j], w \in {"ok", "OSError"} :
        /\ disk' = IF w = "ok"
                   THEN WriteFile(disk, d, "status.json", <<"_run_build", j>>)
                   ELSE disk
        /\ jpc' = [jpc EXCEPT ![j] = AfterWrite(w)]
    /\ UNCHANGED <<env, providers, routerVars, buildVars, taskVars, exVars, moreVars,
                   now, jobs, lock, jprompt, started_at, run_dir, built,
                   ppc, parg, pjob, presp>>

\* _run_build wrote status.json
Wrote(j) ==
    \E f \in disk : f.path = "status.json" /\ f.by = <<"_run_build", j>>

\* where _run_build goes after the finally-block when the write's exception
\* propagated instead of being swallowed
AfterFinally_Propagating(wrote) == IF wrote THEN "end" ELSE "failed_wait"

\* where _run_build goes after the finally-block: logger.info and the end
AfterFinally(wrote) == "end"

\* finally: with _BUILD_JOBS_LOCK: status, finished_at, run_dir of the job
CompleteJob(j) ==
    /\ jpc[j] \in {"set_status_completed", "set_finished_at_completed", "set_run_dir"}
    /\ lock = Some(Worker(j))
    /\ LET a == JobIndex(j) IN
        CASE jpc[j] = "set_status_completed" ->
                /\ jobs' = [jobs EXCEPT ![a].status = "completed"]
                /\ jpc' = [jpc EXCEPT ![j] = "set_finished_at_completed"]
                /\ UNCHANGED lock
          [] jpc[j] = "set_finished_at_completed" ->
                /\ jobs' = [jobs EXCEPT ![a].finished_at = Some(now)]
                /\ jpc' = [jpc EXCEPT ![j] = "set_run_dir"]
                /\ UNCHANGED lock
          [] jpc[j] = "set_run_dir" ->
                /\ jobs' = [jobs EXCEPT ![a].run_dir = run_dir[j]]
                /\ jpc' = [jpc EXCEPT ![j] = AfterFinally(Wrote(j))]
                /\ lock' = Nothing
    /\ UNCHANGED <<env, providers, routerVars, buildVars, taskVars, exVars, moreVars,
                   now, jprompt, started_at, run_dir, built, disk,
                   ppc, parg, pjob, presp>>

\* except Exception: with _BUILD_JOBS_LOCK: status, finished_at, error
FailJob(j) ==
    /\ jpc[j] \in {"set_status_failed", "set_finished_at_failed", "set_error"}
    /\ lock = Some(Worker(j))
    /\ LET a == JobIndex(j) IN
        CASE jpc[j] = "set_status_failed" ->
                /\ jobs' = [jobs EXCEPT ![a].status = "failed"]
                /\ jpc' = [jpc EXCEPT ![j] = "set_finished_at_failed"]
                /\ UNCHANGED lock
          [] jpc[j] = "set_finished_at_failed" ->
                /\ jobs' = [jobs EXCEPT ![a].finished_at = Some(now)]
                /\ jpc' = [jpc EXCEPT ![j] = "set_error"]
                /\ UNCHANGED lock
          [] jpc[j] = "set_error" ->
                /\ jobs' = [jobs EXCEPT ![a].error = Some("OSError")]
                /\ jpc' = [jpc EXCEPT ![j] = "end"]
                /\ lock' = Nothing
    /\ UNCHANGED <<env, providers, routerVars, buildVars, taskVars, exVars, moreVars,
                   now, jprompt, started_at, run_dir, built, disk,
                   ppc, parg, pjob, presp>>

\* sdlc_status: with _BUILD_JOBS_LOCK
sdlc_status ==
    /\ ppc = "idle"
    /\ lock = Nothing
    /\ lock' = Some(StatusPoll)
    /\ \E a \in {Nothing} \cup { Some(j) : j \in PolledIds } : parg' = a
    /\ ppc' = "status_locked"
    /\ pjob' = NoObject
    /\ presp' = Nothing
    /\ UNCHANGED <<env, providers, routerVars, buildVars, taskVars, exVars, moreVars,
                   now, jobs, jpc, jprompt, started_at, run_dir, built, disk>>

\* the return statements of sdlc_status: what is returned is the job's dict
\* itself (pjob names it); leaving the with-block releases the lock
sdlc_status_return ==
    /\ ppc = "status_locked"
    /\ lock' = Nothing
    /\ ppc' = "serialize"
    /\ pjob' =
        IF parg # Nothing
        THEN IF \E j \in parg : HasJob(j)
             THEN [kind |-> "job", ref |-> parg, dir |-> Nothing,
                   jobs_count |-> 0]
             ELSE [kind |-> "job_not_found", ref |-> parg, dir |-> Nothing,
                   jobs_count |-> 0]
        ELSE IF jobs = <<>>
             THEN [kind |-> "jobs", ref |-> Nothing, dir |-> Nothing,
                   jobs_count |-> 0]
             ELSE [kind |-> "latest", ref |-> Some(jobs[Latest].job_id),
                   dir |-> Nothing, jobs_count |-> Len(jobs)]
    /\ UNCHANGED <<env, providers, routerVars, buildVars, taskVars, exVars, moreVars,
                   now, jobs, jpc, jprompt, started_at, run_dir, built, disk,
                   parg, presp>>

\* the framework encodes the returned object: the job's dict is read now
serialize ==
    /\ ppc = "serialize"
    /\ presp' =
        IF pjob.kind \in {"job", "latest"}
        THEN Some([kind |-> pjob.kind,
                   job |-> { jobs[JobIndex(j)] : j \in pjob.ref },
                   jobs_count |-> pjob.jobs_count])
        ELSE Some([kind |-> pjob.kind, job |-> {}, jobs_count |-> 0])
    /\ ppc' = "idle"
    /\ parg' = Nothing
    /\ pjob' = NoObject
    /\ UNCHANGED <<env, providers, routerVars, buildVars, taskVars, exVars, moreVars,
                   now, jobs, lock, jpc, jprompt, started_at, run_dir, built,
                   disk>>

\* sdlc_report(job_id): with _BUILD_JOBS_LOCK when a job_id is given
sdlc_report ==
    /\ ppc = "idle"
    /\ pjob' = NoObject
    /\ \E a \in {Nothing} \cup { Some(j) : j \in PolledIds } :
        /\ parg' = IF a = Nothing THEN Nothing ELSE a
        /\ IF a = Nothing
           THEN /\ presp' = Some([kind |-> "missing_job_id_or_run_dir",
                                  job |-> {}, jobs_count |-> 0])
                /\ UNCHANGED <<ppc, lock>>
           ELSE /\ lock = Nothing
                /\ lock' = Some(ReportPoll)
                /\ ppc' = "report_locked"
                /\ presp' = Nothing
    /\ UNCHANGED <<env, providers, routerVars, buildVars, taskVars, exVars, moreVars,
                   now, jobs, jpc, jprompt, started_at, run_dir, built, disk>>

\* the run directory the job's thread holds, whatever the registry says
TargetDir_OfThread(j) == run_dir[j]

\* job = _BUILD_JOBS.get(job_id); if job and isinstance(job.get("run_dir"),
\* str): target_dir = job.get("run_dir")
TargetDir(j) == IF HasJob(j) THEN jobs[JobIndex(j)].run_dir ELSE Nothing

\* job = _BUILD_JOBS.get(job_id); target_dir = job.get("run_dir")
sdlc_report_lookup ==
    /\ ppc = "report_locked"
    /\ lock' = Nothing
    /\ ppc' = "report_read"
    /\ pjob' = [kind |-> "target_dir",
                ref |-> Nothing,
                dir |-> UNION { TargetDir(j) : j \in parg },
                jobs_count |-> 0]
    /\ UNCHANGED <<env, providers, routerVars, buildVars, taskVars, exVars, moreVars,
                   now, jobs, jpc, jprompt, started_at, run_dir, built, disk,
                   parg, presp>>

\* report_path.exists(); json.loads(report_path.read_text())
sdlc_report_return ==
    /\ ppc = "report_read"
    /\ ppc' = "idle"
    /\ presp' =
        IF pjob.dir = Nothing
        THEN Some([kind |-> "missing_job_id_or_run_dir", job |-> {}, jobs_count |-> 0])
        ELSE IF \E f \in disk : f.dir \in pjob.dir /\ f.path = "run_report.json"
             THEN Some([kind |-> "report", job |-> {}, jobs_count |-> 0])
             ELSE Some([kind |-> "report_not_found", job |-> {}, jobs_count |-> 0])
    /\ UNCHANGED <<env, providers, routerVars, buildVars, taskVars, exVars, moreVars,
                   now, jobs, lock, jpc, jprompt, started_at, run_dir, built,
                   disk, parg, pjob>>

InitJobs ==
    /\ env = {}
    /\ providers = _detect_providers(env, "exception")
    /\ RouterIdle
    /\ BuildIdle
    /\ RestIdle

NextJobs ==
    \/ Tick
    \/ \E j \in JobIds :
        \/ sdlc_build(j)
        \/ Acquire(j)
        \/ RegisterJob(j)
        \/ thread_start(j)
        \/ mk_run_dir(j)
        \/ build_phases(j)
        \/ persist_status(j)
        \/ CompleteJob(j)
        \/ FailJob(j)
    \/ sdlc_status
    \/ sdlc_status_return
    \/ serialize
    \/ sdlc_report
    \/ sdlc_report_lookup
    \/ sdlc_report_return

SpecJobs == InitJobs /\ [][NextJobs]_vars

\* the steps of job j's request and of its thread
JobStep(j) ==
    \/ RegisterJob(j)
    \/ thread_start(j)
    \/ mk_run_dir(j)
    \/ build_phases(j)
    \/ persist_status(j)
    \/ CompleteJob(j)
    \/ FailJob(j)

\* the steps with which a polling request leaves its with-block
PollStep ==
    \/ sdlc_status_return
    \/ sdlc_report_lookup

\* One /sdlc/build request and its thread, with the polling requests and
\* the clock
NextJobsLive ==
    \/ Tick
    \/ sdlc_build(1)
    \/ Acquire(1)
    \/ JobStep(1)
    \/ sdlc_status
    \/ sdlc_status_return
    \/ serialize
    \/ sdlc_report
    \/ sdlc_report_lookup
    \/ sdlc_report_return

\* Scheduling: a thread that can run does run (the handler after it has the
\* lock, the job's thread, builder.build, which is taken to terminate, and a
\* polling request inside its with-block); a thread that waits for the lock
\* gets it when the lock is free again and again.
SpecJobsLive ==
    /\ InitJobs
    /\ [][NextJobsLive]_vars
    /\ WF_jpc(JobStep(1))
    /\ SF_jpc(Acquire(1))
    /\ WF_ppc(PollStep)

-----------------------------------------------------------------------------
(* generate_code: extraction of the files mapping from the routed text     *)

\* number of files of a mapping
MaxFiles == 2

\* file paths and file contents of the mappings
FileKeys == { <<"a">>, <<"b", "\"">>, <<"\\">> }

FileContents == { <<"1">>, <<"\"">>, <<"\\", "n">>, <<"\n", "}">> }

\* a mapping of str to str, as the sequence of its items
IsMapping(M) == \A a, b \in DOMAIN M : a # b => M[a][1] # M[b][1]

Mappings ==
    { M \in SeqsUpTo(FileKeys \X FileContents, MaxFiles) : IsMapping(M) }

\* Values of JSON and of Python: a str or an int (chars), or a dict (members:
\* the set of its items <<key, type of the value, chars of the value>>)
PyStr(chars) == [type |-> "str", chars |-> chars, members |-> {}]

PyInt(chars) == [type |-> "int", chars |-> chars, members |-> {}]

PyDict(members) == [type |-> "dict", chars |-> <<>>, members |-> members]

\* the dict of a mapping
DictOf(M) == PyDict({ <<M[a][1], "str", M[a][2]>> : a \in DOMAIN M })

\* json.dumps of one character of a str
Escape(c) ==
    CASE c = "\"" -> <<"\\", "\"">>
      [] c = "\\" -> <<"\\", "\\">>
      [] c = "\n" -> <<"\\", "n">>
      [] OTHER    -> <<c>>

RECURSIVE DumpStr(_)
DumpStr(s) == IF s = <<>> THEN <<>> ELSE Escape(Head(s)) \o DumpStr(Tail(s))

Quoted(s) == <<"\"">> \o DumpStr(s) \o <<"\"">>

RECURSIVE DumpItems(_)
DumpItems(M) ==
    IF M = <<>> THEN <<>>
    ELSE Quoted(M[1][1]) \o <<":", " ">> \o Quoted(M[1][2])
         \o (IF Len(M) > 1 THEN <<",", " ">> ELSE <<>>)
         \o DumpItems(Tail(M))

\* json.dumps(M) for a mapping of str to str
json_dumps(M) == <<"{">> \o DumpItems(M) \o <<"}">>

\* what the decoder gives when the text is not JSON (JSONDecodeError)
Fail == [ok |-> FALSE, next |-> 0, type |-> "none", chars |-> <<>>, members |-> {}]

Parsed(v, next) ==
    [ok |-> TRUE, next |-> next, type |-> v.type, chars |-> v.chars,
     members |-> v.members]

IsWs(c) == c \in {" ", "\n"}

RECURSIVE SkipWs(_, _)
SkipWs(t, a) == IF a <= Len(t) /\ IsWs(t[a]) THEN SkipWs(t, a + 1) ELSE a

\* the character an escape sequence \c stands for
Unescape(c) == IF c = "n" THEN "\n" ELSE c

\* a JSON string from the character after its opening quote
RECURSIVE ScanString(_, _, _)
ScanString(t, a, acc) ==
    IF a > Len(t) THEN Fail
    ELSE IF t[a] = "\"" THEN Parsed(PyStr(acc), a + 1)
    ELSE IF t[a] = "\\"
         THEN IF a + 1 <= Len(t) /\ t[a + 1] \in {"\"", "\\", "/", "n"}
              THEN ScanString(t, a + 2, Append(acc, Unescape(t[a + 1])))
              ELSE Fail
    ELSE IF t[a] = "\n" THEN Fail          \* control character in a string
    ELSE ScanString(t, a + 1, Append(acc, t[a]))

\* a JSON integer of the digit 1
RECURSIVE ScanInt(_, _, _)
ScanInt(t, a, acc) ==
    IF a <= Len(t) /\ t[a] = "1" THEN ScanInt(t, a + 1, Append(acc, t[a]))
    ELSE Parsed(PyInt(acc), a)

\* a JSON string or integer at position a
ScanScalar(t, a) ==
    IF a > Len(t) THEN Fail
    ELSE IF t[a] = "\"" THEN ScanString(t, a + 1, <<>>)
    ELSE IF t[a] = "1" THEN ScanInt(t, a, <<>>)
    ELSE Fail

\* d[k] = v: a later item with the same key replaces the earlier one
Put(members, key, v) ==
    { m \in members : m[1] # key } \cup { <<key, v.type, v.chars>> }

\* the items of a JSON object from the opening quote of a key
RECURSIVE ScanItems(_, _, _)
ScanItems(t, a, acc) ==
    IF a > Len(t) \/ t[a] # "\"" THEN Fail
    ELSE LET key == ScanString(t, a + 1, <<>>) IN
         IF ~key.ok THEN Fail
         ELSE LET colon == SkipWs(t, key.next) IN
              IF colon > Len(t) \/ t[colon] # ":" THEN Fail
              ELSE LET v == ScanScalar(t, SkipWs(t, colon + 1)) IN
                   IF ~v.ok THEN Fail
                   ELSE LET sep == SkipWs(t, v.next)
                            items == Put(acc, key.chars, v)
                        IN  IF sep > Len(t) THEN Fail
                            ELSE IF t[sep] = "," THEN ScanItems(t, SkipWs(t, sep + 1), items)
                            ELSE IF t[sep] = "}" THEN Parsed(PyDict(items), sep + 1)
                            ELSE Fail

\* a JSON value at position a: an object of strings and integers, a string
\* or an integer (the texts hold no other value)
ScanValue(t, a) ==
    IF a <= Len(t) /\ t[a] = "{"
    THEN LET b == SkipWs(t, a + 1) IN
         IF b <= Len(t) /\ t[b] = "}" THEN Parsed(PyDict({}), b + 1)
         ELSE ScanItems(t, b, {})
    ELSE ScanScalar(t, a)

\* json.loads(t): one value, with white space around it and nothing else
json_loads(t) ==
    LET v == ScanValue(t, SkipWs(t, 1)) IN
    IF v.ok /\ SkipWs(t, v.next) = Len(t) + 1 THEN v ELSE Fail

\* {str(k): str(v) for k, v in data.items()}
Coerce(data) == PyDict({ <<m[1], "str", m[3]>> : m \in data.members })

\* the comprehension with key and value exchanged
_parse_files_json_Exchanged(t) ==
    LET data == json_loads(t) IN
    IF data.ok /\ data.type = "dict"
    THEN [raises |-> FALSE,
          files |-> PyDict({ <<m[3], "str", m[1]>> : m \in data.members })]
    ELSE [raises |-> TRUE, files |-> PyDict({})]

\* _parse_files_json(text): raises unless the text is a JSON object
_parse_files_json(t) ==
    LET data == json_loads(t) IN
    IF data.ok /\ data.type = "dict"
    THEN [raises |-> FALSE, files |-> Coerce(data)]
    ELSE [raises |-> TRUE, files |-> PyDict({})]

StartsWith(t, a, w) ==
    a + Len(w) - 1 <= Len(t) /\ SubSeq(t, a, a + Len(w) - 1) = w

\* the backtick character is written "^" in the texts
Backtick == "^"

Fence == <<Backtick, Backtick, Backtick>>

\* the opening of the pattern (three backticks, optionally json, a newline)
\* at position a: the position after it, or 0
ContentStart(t, a) ==
    IF StartsWith(t, a, Fence \o <<"j", "s", "o", "n", "\n">>)
    THEN a + Len(Fence) + Len(<<"j", "s", "o", "n", "\n">>)
    ELSE IF StartsWith(t, a, Fence \o <<"\n">>)
    THEN a + Len(Fence) + 1
    ELSE 0

\* the positions from s on at which three backticks stand
Closings(t, s) == { q \in s..Len(t) : StartsWith(t, q, Fence) }

SetMin(S) == CHOOSE x \in S : \A y \in S : x <= y

\* re.search(pattern, t): the leftmost match, and for it the shortest group
\* that a closing of three backticks follows
re_search(t) ==
    LET starts == { a \in 1..Len(t) :
                      ContentStart(t, a) # 0 /\ Closings(t, ContentStart(t, a)) # {} }
    IN  IF starts = {} THEN [found |-> FALSE, group |-> <<>>]
        ELSE LET s == ContentStart(t, SetMin(starts))
             IN  [found |-> TRUE,
                  group |-> SubSeq(t, s, SetMin(Closings(t, s)) - 1)]

\* a block: three backticks, tag, newline, body, three backticks
Fenced(tag, body) == Fence \o tag \o <<"\n">> \o body \o Fence

TagJson == <<"j", "s", "o", "n">>

OneFile == json_dumps(<< <<<<"a">>, <<"1">>>> >>)

\* routed texts that are not the serialisation of a mapping
OtherTexts ==
    { <<>>,
      <<"n", "o">>,
      <<"1">>,
      <<"\"", "a", "\"">>,
      <<"{", "\"", "a", "\"", ":", " ", "1", "}">>,
      <<" ">> \o OneFile \o <<"\n">>,
      <<"n", "o">> \o OneFile,
      Fenced(TagJson, OneFile \o <<"\n">>),
      <<"n", "o", "\n">> \o Fenced(<<>>, OneFile) \o <<"\n", "n", "o">>,
      Fenced(TagJson, <<"1">>),
      Fenced(TagJson, <<"{", "\"", "a", "\"", ":", " ", "1", "}">>),
      Fenced(TagJson, <<"{", "a">>),
      Fenced(<<>>, <<"n", "o", "\n">>),
      Fence \o TagJson \o <<"\n">> \o OneFile,
      Fenced(<<"p", "y">>, <<"a", "\n">>) \o <<"\n">> \o Fenced(TagJson, OneFile \o <<"\n">>),
      Fenced(TagJson, <<"{", "a">>) \o Fenced(TagJson, OneFile) }

ExtractTexts == { json_dumps(M) : M \in Mappings } \cup OtherTexts

\* files = self._parse_files_json(text)
parse_files ==
    /\ ex_pc = "idle"
    /\ LET r == _parse_files_json(ex_text) IN
        IF r.raises
        THEN ex_pc' = "except" /\ UNCHANGED ex_files
        ELSE ex_pc' = "returned" /\ ex_files' = Some(r.files)
    /\ UNCHANGED <<env, providers, routerVars, buildVars, jobVars, taskVars, moreVars, ex_text>>

\* except Exception: m = re.search(...); if m: files = _json.loads(m.group(1))
fence_search ==
    /\ ex_pc = "except"
    /\ LET m == re_search(ex_text)
           v == json_loads(m.group)
       IN  IF ~m.found
           THEN ex_pc' = "returned" /\ ex_files' = Some(PyDict({}))
           ELSE IF v.ok
                THEN /\ ex_pc' = "returned"
                     /\ ex_files' = Some([type |-> v.type, chars |-> v.chars,
                                          members |-> v.members])
                ELSE ex_pc' = "raised" /\ UNCHANGED ex_files
    /\ UNCHANGED <<env, providers, routerVars, buildVars, jobVars, taskVars, moreVars, ex_text>>

InitExtract ==
    /\ env = {}
    /\ providers = _detect_providers(env, "exception")
    /\ RouterIdle
    /\ BuildIdle
    /\ JobsIdle
    /\ TaskIdle
    /\ MoreIdle
    /\ ex_text \in ExtractTexts
    /\ ex_pc = "idle"
    /\ ex_files = Nothing

NextExtract ==
    \/ parse_files
    \/ fence_search

SpecExtract == InitExtract /\ [][NextExtract]_vars

-----------------------------------------------------------------------------
(* _detect_providers and refresh, step by step                             *)

EnvNames == {"OPENAI_API_KEY", "GEMINI_API_KEY", "MISTRAL_API_KEY",
             "GROQ_API_KEY", "HF_API_KEY", "HUGGINGFACE_API_KEY",
             "PERPLEXITY_API_KEY", "OLLAMA_BASE_URL", "V0_API_KEY",
             "V0_DEV_API_KEY"}

\* environments the process is started in: the names set to a non-empty value
DetectEnvs == SUBSET EnvNames

\* the probe's exception leaves _detect_providers
ProbeOutcome_Uncaught(r) ==
    CASE r = "ok"        -> "available"
      [] r = "non2xx"    -> "unavailable"
      [] r = "exception" -> "raise"

\* try: requests.get(...); if resp.ok: ...  except Exception: ...
ProbeOutcome(r) ==
    CASE r = "ok"        -> "available"
      [] r = "non2xx"    -> "unavailable"    \* ollama_available stays False
      [] r = "exception" -> "unavailable"    \* except Exception

\* refresh() is called
detect_begin ==
    /\ dpc \in {"idle", "done"}
    /\ dpc' = "probe"
    /\ probed' = Nothing
    /\ UNCHANGED <<env, providers, routerVars, buildVars, crudVars, reportVars, toolVars, jobVars, taskVars,
                   exVars, visionVars, codeVars>>

\* requests.get(base + "/api/tags", timeout=1.5) inside the try block
detect_probe ==
    /\ dpc = "probe"
    /\ \E r \in ProbeResults :
        /\ probed' = Some(r)
        /\ dpc' = IF ProbeOutcome(r) = "raise" THEN "raised" ELSE "assign"
    /\ UNCHANGED <<env, providers, routerVars, buildVars, crudVars, reportVars, toolVars, jobVars, taskVars,
                   exVars, visionVars, codeVars>>

\* the dict is built and refresh() assigns it to self.providers
detect_assign ==
    /\ dpc = "assign"
    /\ \E r \in probed : providers' = _detect_providers(env, r)
    /\ dpc' = "done"
    /\ UNCHANGED <<env, routerVars, buildVars, crudVars, reportVars, toolVars, jobVars, taskVars, exVars,
                   visionVars, codeVars, probed>>

InitDetect ==
    /\ env \in DetectEnvs
    /\ \E probe \in ProbeResults : providers = _detect_providers(env, probe)
    /\ RouterIdle
    /\ BuildIdle
    /\ RestIdle

NextDetect ==
    \/ detect_begin
    \/ detect_probe
    \/ detect_assign

SpecDetect == InitDetect /\ [][NextDetect]_vars

-----------------------------------------------------------------------------
(* generate_code                                                           *)

CodePromptPrefix ==
    <<"R", "e", "t", "u", "r", "n", " ", "O", "N", "L", "Y", " ", "a", " ",
      "J", "S", "O", "N", " ", "o", "b", "j", "e", "c", "t", " ", "w", "h",
      "e", "r", "e", " ", "k", "e", "y", "s", " ", "a", "r", "e", " ", "r",
      "e", "l", "a", "t", "i", "v", "e", " ", "f", "i", "l", "e", " ", "p",
      "a", "t", "h", "s", " ", "a", "n", "d", " ", "v", "a", "l", "u", "e",
      "s", " ", "a", "r", "e", " ", "f", "i", "l", "e", " ", "c", "o", "n",
      "t", "e", "n", "t", "s", ".", " ", "D", "o", " ", "n", "o", "t", " ",
      "i", "n", "c", "l", "u", "d", "e", " ", "e", "x", "p", "l", "a", "n",
      "a", "t", "i", "o", "n", "s", ".", " ", "I", "n", "s", "t", "r", "u",
      "c", "t", "i", "o", "n", ":", " ">>

\* the prompt generate_code wraps the instruction in
CodePrompt(instruction) == CodePromptPrefix \o instruction

\* instructions: a plain one, one that quotes a fenced block that is not
\* JSON, one that quotes a fenced files object
Instructions ==
    { <<"a", "p", "i">>,
      Fenced(<<>>, <<"n", "o", "\n">>),
      Fenced(TagJson, OneFile) }

\* generate_code is called: the prompt is wrapped and generate_text is
\* entered with the fixed preference list
generate_code_begin ==
    /\ gc_pc = "idle"
    /\ pc = "idle"
    /\ cpc = "idle"
    /\ \E instruction \in Instructions : prompt' = CodePrompt(instruction)
    /\ preference' = CodegenPreference
    /\ pc' = "pref"
    /\ strategies' = <<>>
    /\ idx' = 1
    /\ k' = 1
    /\ attempt' = 1
    /\ delays' = <<>>
    /\ tried' = <<>>
    /\ result' = None
    /\ mapsSeen' = {providers}
    /\ gc_pc' = "routing"
    /\ gc_result' = Nothing
    /\ UNCHANGED <<env, providers, buildVars, crudVars, reportVars, toolVars, jobVars, taskVars, exVars,
                   detectVars, visionVars>>

\* generate_text has returned: text = result.get("output", "{}")
generate_code_text ==
    /\ gc_pc = "routing"
    /\ pc = "done"
    /\ ex_text' = result.output
    /\ ex_pc' = "idle"
    /\ ex_files' = Nothing
    /\ gc_pc' = "extract"
    /\ UNCHANGED <<env, providers, routerVars, buildVars, crudVars, reportVars, toolVars, jobVars, taskVars,
                   detectVars, visionVars, gc_result>>

\* result["files"] = files; return result -- or the exception of the
\* extraction leaves generate_code
generate_code_end ==
    /\ gc_pc = "extract"
    /\ ex_pc \in {"returned", "raised"}
    /\ IF ex_pc = "returned"
       THEN /\ gc_pc' = "done"
            /\ \E f \in ex_files :
                 gc_result' = Some([output |-> result.output,
                                    provider |-> result.provider,
                                    model |-> result.model,
                                    tokens |-> result.tokens,
                                    fallback |-> result.fallback,
                                    files |-> f])
       ELSE /\ gc_pc' = "raised"
            /\ UNCHANGED gc_result
    /\ UNCHANGED <<env, providers, routerVars, buildVars, crudVars, reportVars, toolVars, jobVars, taskVars,
                   exVars, detectVars, visionVars>>

\* the caller has the returned dict or the exception; the frames are gone
generate_code_return ==
    /\ gc_pc \in {"done", "raised"}
    /\ pc' = "idle"
    /\ prompt' = <<>>
    /\ preference' = <<>>
    /\ idx' = 1
    /\ strategies' = <<>>
    /\ k' = 1
    /\ attempt' = 1
    /\ delays' = <<>>
    /\ tried' = <<>>
    /\ result' = None
    /\ mapsSeen' = {}
    /\ ex_text' = <<>>
    /\ ex_pc' = "idle"
    /\ ex_files' = Nothing
    /\ gc_pc' = "idle"
    /\ gc_result' = Nothing
    /\ UNCHANGED <<env, providers, buildVars, crudVars, reportVars, toolVars, jobVars, taskVars, detectVars,
                   visionVars>>

-----------------------------------------------------------------------------
(* classify_image                                                          *)

\* image.resize((32, 32)): the thumbnail has ThumbSide * ThumbSide pixels
ThumbSide == 32

\* label = "cow" if avg < 128 else "cat"
BrightnessThreshold == 128

\* confidence = 0.65, in hundredths
BaselineConfidence == 65

Pixels == { <<0, 0, 0>>, <<127, 127, 127>>, <<128, 128, 127>>,
            <<128, 128, 128>>, <<255, 255, 255>> }

\* RGB thumbnails: every pixel is `base` but one, which is `odd`
Images == [base : Pixels, odd : Pixels]

\* sum(p[0] + p[1] + p[2] for p in pixels.getdata())
ChannelSum(img) ==
    (ThumbSide * ThumbSide - 1) * (img.base[1] + img.base[2] + img.base[3])
    + (img.odd[1] + img.odd[2] + img.odd[3])

\* the threshold belongs to cow
BaselineLabel_Inclusive(img) ==
    IF ChannelSum(img) <= BrightnessThreshold * (ThumbSide * ThumbSide * 3)
    THEN "cow" ELSE "cat"

\* avg = sum / (32 * 32 * 3); "cow" if avg < 128 else "cat"
BaselineLabel(img) ==
    IF ChannelSum(img) < BrightnessThreshold * (ThumbSide * ThumbSide * 3)
    THEN "cow" ELSE "cat"

VisionLabelOrder == <<"openai", "gemini", "groq", "hf", "ollama">>

\* _pick_provider_for_vision
_pick_provider_for_vision(m) ==
    LET avail == SelectSeq(VisionLabelOrder, LAMBDA n : Get(m, n)) IN
    IF avail # <<>> THEN <<avail[1], "auto">> ELSE <<"local", "baseline">>

\* what the hosted classifier answers to one HTTP call: "nullscore" is a
\* prediction whose score is null
ClassifyResponses == {"timeout", "non2xx", "malformed", "good", "nullscore"}

HostedLabel == "tabby"

\* score of the hosted prediction, in hundredths
HostedScore == 90

\* Outcome of the body of _hf_classify for one response: "raise" an
\* exception (tenacity retries), "pair" a (label, score) tuple, "badscore" a
\* tuple whose score float() refuses.
ClassifyAttempt(resp) ==
    CASE resp \in {"timeout", "non2xx"} -> "raise"   \* requests / raise_for_status
      [] resp = "malformed" -> "raise"               \* max(...) over a dict
      [] resp = "good"      -> "pair"
      [] resp = "nullscore" -> "badscore"

HostedClassification ==
    [label |-> HostedLabel, confidence |-> HostedScore, provider |-> "hf",
     model |-> "vit-base-patch16-224", fallback |-> FALSE]

FallbackClassification(img, m) ==
    LET pick == _pick_provider_for_vision(m) IN
    [label |-> BaselineLabel(img), confidence |-> BaselineConfidence,
     provider |-> pick[1], model |-> pick[2], fallback |-> TRUE]

\* classify_image is called; if self.providers.get("hf")
classify_image_begin ==
    /\ cpc = "idle"
    /\ pc = "idle"
    /\ gc_pc = "idle"
    /\ \E img \in Images : image' = Some(img)
    /\ hf_seen' = Get(providers, "hf")
    /\ cpc' = IF Get(providers, "hf") THEN "hf" ELSE "fallback"
    /\ cattempt' = 1
    /\ hosted' = "none"
    /\ cls_result' = Nothing
    /\ UNCHANGED <<env, providers, routerVars, buildVars, crudVars, reportVars, toolVars, jobVars, taskVars,
                   exVars, detectVars, codeVars>>

\* one HTTP attempt of _hf_classify, and what the try block does with it
hf_classify ==
    /\ cpc = "hf"
    /\ \E resp \in ClassifyResponses :
        LET r == ClassifyAttempt(resp) IN
        CASE r = "raise" /\ cattempt < StopAfterAttempt ->
                /\ cattempt' = cattempt + 1
                /\ UNCHANGED <<cpc, hosted, cls_result>>
          [] r = "raise" /\ cattempt >= StopAfterAttempt ->
                /\ hosted' = "RetryError"            \* except Exception: pass
                /\ cpc' = "fallback"
                /\ UNCHANGED <<cattempt, cls_result>>
          [] r = "badscore" ->
                /\ hosted' = "badscore"              \* float(None): TypeError
                /\ cpc' = "fallback"
                /\ UNCHANGED <<cattempt, cls_result>>
          [] r = "pair" ->
                /\ hosted' = "pair"
                /\ cls_result' = Some(HostedClassification)
                /\ cpc' = "done"
                /\ UNCHANGED cattempt
    /\ UNCHANGED <<env, providers, routerVars, buildVars, crudVars, reportVars, toolVars, jobVars, taskVars,
                   exVars, detectVars, codeVars, image, hf_seen>>

\* the local baseline marks hf unavailable after its failure
classify_fallback_MarksHfDown ==
    /\ cpc = "fallback"
    /\ \E img \in image :
        cls_result' = Some(FallbackClassification(img, providers))
    /\ cpc' = "done"
    /\ providers' = IF hosted = "none" THEN providers
                    ELSE [providers EXCEPT !["hf"] = FALSE]
    /\ UNCHANGED <<env, routerVars, buildVars, crudVars, reportVars, toolVars, jobVars, taskVars,
                   exVars, detectVars, codeVars, image, hf_seen, cattempt, hosted>>

\* the local baseline: lines 87-94
classify_fallback ==
    /\ cpc = "fallback"
    /\ \E img \in image :
        cls_result' = Some(FallbackClassification(img, providers))
    /\ cpc' = "done"
    /\ UNCHANGED <<env, providers, routerVars, buildVars, crudVars, reportVars, toolVars, jobVars, taskVars,
                   exVars, detectVars, codeVars, image, hf_seen, cattempt, hosted>>

\* the caller has the returned dict; the frame and its locals are gone
classify_image_return ==
    /\ cpc = "done"
    /\ cpc' = "idle"
    /\ image' = Nothing
    /\ hf_seen' = FALSE
    /\ cattempt' = 1
    /\ hosted' = "none"
    /\ cls_result' = Nothing
    /\ UNCHANGED <<env, providers, routerVars, buildVars, crudVars, reportVars, toolVars, jobVars, taskVars,
                   exVars, detectVars, codeVars>>

\* environments of the router that serves text and images
FrameEnvs == { {}, {"HF_API_KEY"}, {"GEMINI_API_KEY"},
               {"HUGGINGFACE_API_KEY", "OPENAI_API_KEY"} }

InitRouter ==
    /\ env \in FrameEnvs
    /\ \E probe \in ProbeResults : providers = _detect_providers(env, probe)
    /\ RouterIdle
    /\ BuildIdle
    /\ RestIdle

\* one request at a time on the router, refresh() at any moment
NextRouter ==
    \/ (cpc = "idle" /\ gc_pc = "idle" /\ generate_text_begin)
    \/ PreferenceLoop
    \/ DefaultLoop
    \/ TryCandidate
    \/ PickLabel
    \/ (gc_pc = "idle" /\ generate_text_return)
    \/ generate_code_begin
    \/ generate_code_text
    \/ (gc_pc = "extract" /\ parse_files)
    \/ fence_search
    \/ generate_code_end
    \/ generate_code_return
    \/ classify_image_begin
    \/ hf_classify
    \/ classify_fallback
    \/ classify_image_return
    \/ refresh

SpecRouter == InitRouter /\ [][NextRouter]_vars

-----------------------------------------------------------------------------
(* CRUD of students, events and requirements: each handler of main.py      *)
(* with the DatabaseService method it calls, one transaction               *)

Tables == {"students", "events", "requirements"}

\* the columns a payload sets (created_at, the column default, is left out)
Columns(t) ==
    CASE t = "students"     -> {"name", "email"}
      [] t = "events"       -> {"title", "description", "date"}
      [] t = "requirements" -> {"title", "content"}

\* StudentIn, EventIn, RequirementIn: the fields without a default
Required(t) ==
    CASE t = "students"     -> {"name"}
      [] t = "events"       -> {"title"}
      [] t = "requirements" -> {"title", "content"}

\* the JSON objects of a requirement's content
Contents == { <<>>, << <<<<"b", "\"">>, <<"\n", "}">>>> >> }

\* values of a field: None, or a value
Titles == {Some("a"), Some("b")}

OptionalTexts == {Nothing, Some("a")}

\* request bodies the model validates
Payloads(t) ==
    CASE t = "students" ->
            [name : Titles, email : OptionalTexts]
      [] t = "events" ->
            [title : Titles, description : OptionalTexts, date : OptionalTexts]
      [] t = "requirements" ->
            [title : Titles, content : { Some(M) : M \in Contents }]

\* Column(JSON): the value is bound as its JSON text
Bind(c, v) == IF c = "content" THEN { json_dumps(M) : M \in v } ELSE v

\* Column(JSON): the text of the row is decoded
Result(c, v) ==
    IF c = "content" THEN { PyDict(json_loads(t).members) : t \in v } ELSE v

\* SQLite gives a new row the largest id of the table plus one
NextId(r) ==
    IF DOMAIN r = {} THEN 1
    ELSE (CHOOSE i \in DOMAIN r : \A j \in DOMAIN r : j <= i) + 1

\* session.add(obj); session.commit()
Insert(r, i, p, t) ==
    [j \in DOMAIN r \cup {i} |->
        IF j = i THEN [c \in Columns(t) |-> Bind(c, p[c])] ELSE r[j]]

\* if name is not None: obj.name = name ...; session.commit()
Assign(r, i, p, t) ==
    [r EXCEPT ![i] = [c \in Columns(t) |->
                        IF p[c] # Nothing THEN Bind(c, p[c]) ELSE r[i][c]]]

\* the row stays in the table
Delete_Kept(r, i) ==
    r

\* session.delete(obj); session.commit()
Delete(r, i) ==
    [j \in DOMAIN r \ {i} |-> r[j]]

NotFound == [error |-> "not found"]

\* the dict get_student, get_event, get_requirement return
RowDict(r, i, t) ==
    [id |-> i, columns |-> [c \in Columns(t) |-> Result(c, r[i][c])]]

\* a request about the id the history follows, and its response; live and
\* after_delete: what the history said when the request came
Request(op, i, body) ==
    IF i = watch
    THEN Some([op |-> op, id |-> i, body |-> body,
               live |-> made # Nothing, after_delete |-> deleted])
    ELSE Nothing

\* POST /students, /events, /requirements
create ==
    /\ NextId(rows) <= MaxRowId
    /\ \E p \in Payloads(table) :
        LET i == NextId(rows) IN
        /\ rows' = Insert(rows, i, p, table)
        /\ made' = IF i = watch THEN Some(p) ELSE made
        /\ updated' = IF i = watch THEN FALSE ELSE updated
        /\ answered' = Request("create", i, [id |-> i])
    /\ UNCHANGED <<env, providers, routerVars, buildVars, jobVars, taskVars,
                   exVars, detectVars, visionVars, codeVars, reportVars, toolVars, table, watch,
                   deleted>>

\* GET /students/{id}, ...
get ==
    /\ \E i \in RowIds :
        answered' = Request("get", i,
                            IF i \in DOMAIN rows THEN RowDict(rows, i, table)
                            ELSE NotFound)
    /\ UNCHANGED <<env, providers, routerVars, buildVars, jobVars, taskVars,
                   exVars, detectVars, visionVars, codeVars, reportVars, toolVars, table, rows,
                   watch, made, updated, deleted>>

\* PUT /students/{id}, ...
update ==
    /\ \E i \in RowIds, p \in Payloads(table) :
        IF i \in DOMAIN rows
        THEN /\ rows' = Assign(rows, i, p, table)
             /\ updated' = IF i = watch THEN TRUE ELSE updated
             /\ answered' = Request("update", i, [success |-> TRUE])
        ELSE /\ answered' = Request("update", i, [success |-> FALSE])
             /\ UNCHANGED <<rows, updated>>
    /\ UNCHANGED <<env, providers, routerVars, buildVars, jobVars, taskVars,
                   exVars, detectVars, visionVars, codeVars, reportVars, toolVars, table, watch,
                   made, deleted>>

\* DELETE /students/{id}, ...
delete ==
    /\ \E i \in RowIds :
        IF i \in DOMAIN rows
        THEN /\ rows' = Delete(rows, i)
             /\ made' = IF i = watch THEN Nothing ELSE made
             /\ deleted' = IF i = watch THEN TRUE ELSE deleted
             /\ answered' = Request("delete", i, [success |-> TRUE])
        ELSE /\ answered' = Request("delete", i, [success |-> FALSE])
             /\ UNCHANGED <<rows, made, deleted>>
    /\ UNCHANGED <<env, providers, routerVars, buildVars, jobVars, taskVars,
                   exVars, detectVars, visionVars, codeVars, reportVars, toolVars, table, watch,
                   updated>>

InitCrud ==
    /\ env = {}
    /\ providers = _detect_providers(env, "exception")
    /\ RouterIdle
    /\ BuildIdle
    /\ JobsIdle
    /\ TaskIdle
    /\ ExtractIdle
    /\ DetectIdle
    /\ VisionIdle
    /\ CodeIdle
    /\ ReportIdle
    /\ ToolIdle
    /\ table \in Tables
    /\ rows = <<>>
    /\ watch \in RowIds
    /\ made = Nothing
    /\ updated = FALSE
    /\ deleted = FALSE
    /\ answered = Nothing

NextCrud ==
    \/ create
    \/ get
    \/ update
    \/ delete

SpecCrud == InitCrud /\ [][NextCrud]_vars

-----------------------------------------------------------------------------
(* The models build records: the generation calls of the requirements and  *)
(* of the frontend phase, and what record() is given as models_used        *)

RequirementsPromptPrefix ==
    <<"E", "x", "t", "r", "a", "c", "t", " ", "d", "e", "t", "a", "i", "l",
      "e", "d", ",", " ", "s", "t", "r", "u", "c", "t", "u", "r", "e", "d",
      " ", "r", "e", "q", "u", "i", "r", "e", "m", "e", "n", "t", "s", " ",
      "(", "t", "i", "t", "l", "e", ",", " ", "d", "e", "s", "c", "r", "i",
      "p", "t", "i", "o", "n", ",", " ", "m", "o", "d", "u", "l", "e", "s",
      ",", " ", "f", "r", "o", "n", "t", "e", "n", "d", " ", "s", "t", "a",
      "c", "k", ",", " ", "b", "a", "c", "k", "e", "n", "d", " ", "s", "t",
      "a", "c", "k", ",", " ", "D", "B", " ", "s", "c", "h", "e", "m", "a",
      ",", " ", "A", "P", "I", " ", "r", "o", "u", "t", "e", "s", ",", " ",
      "f", "e", "a", "t", "u", "r", "e", "s", ",", " ", "d", "e", "p", "l",
      "o", "y", "m", "e", "n", "t", ")", " ", "f", "o", "r", ":", " ">>

RefinePromptPrefix ==
    <<"R", "e", "f", "i", "n", "e", " ", "t", "h", "e", " ", "f", "o", "l",
      "l", "o", "w", "i", "n", "g", " ", "r", "e", "q", "u", "i", "r", "e",
      "m", "e", "n", "t", "s", " ", "t", "o", " ", "b", "e", " ", "c", "o",
      "n", "c", "i", "s", "e", " ", "a", "n", "d", " ", "a", "c", "t", "i",
      "o", "n", "a", "b", "l", "e", " ", "a", "n", "d", " ", "r", "e", "t",
      "u", "r", "n", " ", "i", "m", "p", "r", "o", "v", "e", "d", " ", "t",
      "e", "x", "t", " ", "o", "n", "l", "y", ":", "\n", "\n">>

V0PromptPart1 ==
    <<"\n", "C", "r", "e", "a", "t", "e", " ", "a", " ", "m", "o", "d", "e",
      "r", "n", ",", " ", "a", "t", "t", "r", "a", "c", "t", "i", "v", "e",
      " ", "R", "e", "a", "c", "t", " ", "(", "V", "i", "t", "e", ")", " ",
      "+", " ", "T", "a", "i", "l", "w", "i", "n", "d", " ", "f", "r", "o",
      "n", "t", "e", "n", "d", " ", "f", "o", "r", ":", " ">>

V0PromptPart2 ==
    <<"\n", "\n", "R", "e", "q", "u", "i", "r", "e", "m", "e", "n", "t", "s",
      ":", "\n", "1", ".", " ", "U", "s", "e", " ", "R", "e", "a", "c", "t",
      " ", "+", " ", "V", "i", "t", "e", " ", "+", " ", "T", "a", "i", "l",
      "w", "i", "n", "d", " ", "C", "S", "S", "\n", "2", ".", " ", "C", "o",
      "n", "n", "e", "c", "t", " ", "t", "o", " ", "b", "a", "c", "k", "e",
      "n", "d", " ", "A", "P", "I", " ", "a", "t", " ", "V", "I", "T", "E",
      "_", "A", "P", "I", "_", "B", "A", "S", "E", " ", "(", "d", "e", "f",
      "a", "u", "l", "t", " ", "h", "t", "t", "p", ":", "/", "/", "l", "o",
      "c", "a", "l", "h", "o", "s", "t", ":", "8", "0", "0", "0", ")", "\n",
      "3", ".", " ", "C", "r", "e", "a", "t", "e", " ", "c", "o", "m", "p",
      "o", "n", "e", "n", "t", "s", " ", "t", "h", "a", "t", " ", "a", "r",
      "e", " ", "s", "p", "e", "c", "i", "f", "i", "c", " ", "t", "o", " ",
      "t", "h", "e", " ", "d", "o", "m", "a", "i", "n", ":", " ">>

V0PromptPart3 ==
    <<"\n", "4", ".", " ", "I", "n", "c", "l", "u", "d", "e", " ", "p", "r",
      "o", "p", "e", "r", " ", "e", "r", "r", "o", "r", " ", "h", "a", "n",
      "d", "l", "i", "n", "g", " ", "a", "n", "d", " ", "l", "o", "a", "d",
      "i", "n", "g", " ", "s", "t", "a", "t", "e", "s", "\n", "5", ".", " ",
      "M", "a", "k", "e", " ", "i", "t", " ", "r", "e", "s", "p", "o", "n",
      "s", "i", "v", "e", " ", "a", "n", "d", " ", "a", "t", "t", "r", "a",
      "c", "t", "i", "v", "e", "\n", "6", ".", " ", "F", "e", "t", "c", "h",
      " ", "d", "a", "t", "a", " ", "f", "r", "o", "m", " ", "b", "a", "c",
      "k", "e", "n", "d", " ", "e", "n", "d", "p", "o", "i", "n", "t", "s",
      " ", "(", "/", "h", "e", "a", "l", "t", "h", ",", " ", "/", "s", "t",
      "a", "t", "u", "s", ",", " ", "/", "p", "r", "o", "v", "i", "d", "e",
      "r", "s", ",", " ", "/", ")", "\n", "7", ".", " ", "I", "n", "c", "l",
      "u", "d", "e", " ", "n", "a", "v", "i", "g", "a", "t", "i", "o", "n",
      " ", "a", "n", "d", " ", "p", "r", "o", "p", "e", "r", " ", "c", "o",
      "m", "p", "o", "n", "e", "n", "t", " ", "s", "t", "r", "u", "c", "t",
      "u", "r", "e", "\n", "8", ".", " ", "U", "s", "e", " ", "m", "o", "d",
      "e", "r", "n", " ", "R", "e", "a", "c", "t", " ", "p", "a", "t", "t",
      "e", "r", "n", "s", " ", "(", "h", "o", "o", "k", "s", ",", " ", "f",
      "u", "n", "c", "t", "i", "o", "n", "a", "l", " ", "c", "o", "m", "p",
      "o", "n", "e", "n", "t", "s", ")", "\n", "\n", "T", "h", "e", " ", "f",
      "r", "o", "n", "t", "e", "n", "d", " ", "s", "h", "o", "u", "l", "d",
      " ", "b", "e", " ", "f", "u", "l", "l", "y", " ", "f", "u", "n", "c",
      "t", "i", "o", "n", "a", "l", " ", "a", "n", "d", " ", "r", "e", "a",
      "d", "y", " ", "t", "o", " ", "r", "u", "n", " ", "w", "i", "t", "h",
      " ", "n", "p", "m", " ", "i", "n", "s", "t", "a", "l", "l", " ", "&",
      "&", " ", "n", "p", "m", " ", "r", "u", "n", " ", "d", "e", "v", ".",
      "\n">>

\* the f-string of the frontend phase
V0Prompt(p) == V0PromptPart1 \o p \o V0PromptPart2 \o p \o V0PromptPart3

\* generate_text(p, preference=pr) is entered
Enter(p, pr) ==
    /\ prompt' = p
    /\ preference' = pr
    /\ pc' = IF pr # <<>> THEN "pref" ELSE "default"
    /\ strategies' = <<>>
    /\ idx' = 1
    /\ k' = 1
    /\ attempt' = 1
    /\ delays' = <<>>
    /\ tried' = <<>>
    /\ result' = None
    /\ mapsSeen' = {providers}

\* generate_text has returned to the build
Leave ==
    /\ pc' = "idle"
    /\ prompt' = <<>>
    /\ preference' = <<>>
    /\ idx' = 1
    /\ strategies' = <<>>
    /\ k' = 1
    /\ attempt' = 1
    /\ delays' = <<>>
    /\ tried' = <<>>
    /\ result' = None
    /\ mapsSeen' = {}

\* the fields of a routing result the build reads
Brief(r) == [output |-> r.output, provider |-> r.provider, model |-> r.model]

\* the dict the build takes when the provider is unavailable
Skipped(output) == [output |-> output, provider |-> None, model |-> None]

\* what v0.dev answers to one HTTP call: no answer, an answer without
\* files, an answer with files
V0Responses == {"timeout", "non2xx", "nofiles", "files"}

\* data.get("model", "free")
V0Model == "free"

\* req_models = {"gemini": res_g.get("model"), "openai": res_o.get("model")}
RequirementsModels(g, o) ==
    [gemini |-> g.model, openai |-> o.model]

\* fe_models = {"provider": "v0", "model": resp.get("model")}
FrontendModels(r) ==
    [provider |-> "v0", model |-> r.model]

\* build starts: the prompt
report_begin ==
    /\ rpc = "idle"
    /\ pc = "idle"
    /\ \E p \in Prompts : rprompt' = p
    /\ rpc' = "requirements"
    /\ UNCHANGED <<env, providers, routerVars, buildVars, jobVars, taskVars,
                   exVars, detectVars, visionVars, codeVars, crudVars, toolVars,
                   res_g, res_o, v0_attempt, fe_resp, rlogs>>

\* Phase 1, line 62: res_g = generate_text(...) if providers.get("gemini")
requirements_begin ==
    /\ rpc = "requirements"
    /\ IF fast_mode
       THEN /\ rpc' = "req_record"
            /\ UNCHANGED <<routerVars, res_g>>
       ELSE IF Get(providers, "gemini")
       THEN /\ Enter(RequirementsPromptPrefix \o rprompt, <<"gemini">>)
            /\ rpc' = "res_g"
            /\ UNCHANGED res_g
       ELSE /\ res_g' = Some(Skipped(<<>>))
            /\ rpc' = "refine"
            /\ UNCHANGED routerVars
    /\ UNCHANGED <<env, providers, buildVars, jobVars, taskVars,
                   exVars, detectVars, visionVars, codeVars, crudVars, toolVars,
                   rprompt, res_o, v0_attempt, fe_resp, rlogs>>

res_g_return ==
    /\ rpc = "res_g"
    /\ pc = "done"
    /\ res_g' = Some(Brief(result))
    /\ Leave
    /\ rpc' = "refine"
    /\ UNCHANGED <<env, providers, buildVars, jobVars, taskVars,
                   exVars, detectVars, visionVars, codeVars, crudVars, toolVars,
                   rprompt, res_o, v0_attempt, fe_resp, rlogs>>

\* line 63: res_o = generate_text(...) if providers.get("openai")
refine_begin ==
    /\ rpc = "refine"
    /\ \E g \in res_g :
        IF Get(providers, "openai")
        THEN /\ Enter(RefinePromptPrefix \o g.output, <<"openai">>)
             /\ rpc' = "res_o"
             /\ UNCHANGED res_o
        ELSE /\ res_o' = Some(Skipped(g.output))
             /\ rpc' = "req_record"
             /\ UNCHANGED routerVars
    /\ UNCHANGED <<env, providers, buildVars, jobVars, taskVars,
                   exVars, detectVars, visionVars, codeVars, crudVars, toolVars,
                   rprompt, res_g, v0_attempt, fe_resp, rlogs>>

res_o_return ==
    /\ rpc = "res_o"
    /\ pc = "done"
    /\ res_o' = Some(Brief(result))
    /\ Leave
    /\ rpc' = "req_record"
    /\ UNCHANGED <<env, providers, buildVars, jobVars, taskVars,
                   exVars, detectVars, visionVars, codeVars, crudVars, toolVars,
                   rprompt, res_g, v0_attempt, fe_resp, rlogs>>

\* lines 60, 64 and 66-80: req_models, the two files, record(...)
requirements_record ==
    /\ rpc = "req_record"
    /\ \E written \in BOOLEAN :
        LET req_models ==
                IF fast_mode THEN [mode |-> "fast"]
                ELSE RequirementsModels(CHOOSE g \in res_g : TRUE,
                                        CHOOSE o \in res_o : TRUE)
        IN  rlogs' = Append(rlogs, [stage |-> "requirements",
                                    success |-> written,
                                    models_used |-> req_models])
    /\ rpc' = "frontend"
    /\ UNCHANGED <<env, providers, routerVars, buildVars, jobVars, taskVars,
                   exVars, detectVars, visionVars, codeVars, crudVars, toolVars,
                   rprompt, res_g, res_o, v0_attempt, fe_resp>>

\* Phase 3, line 153: if (not self.fast_mode) and providers.get("v0")
frontend_begin ==
    /\ rpc = "frontend"
    /\ rpc' = IF ~fast_mode /\ Get(providers, "v0") THEN "v0" ELSE "fe_record"
    /\ v0_attempt' = 1
    /\ UNCHANGED <<env, providers, routerVars, buildVars, jobVars, taskVars,
                   exVars, detectVars, visionVars, codeVars, crudVars, toolVars,
                   rprompt, res_g, res_o, fe_resp, rlogs>>

\* run_tool("v0", v0_prompt): one HTTP attempt of _v0_generate_frontend;
\* after the last failed attempt run_tool goes on to generate_text(prompt)
run_tool_v0 ==
    /\ rpc = "v0"
    /\ \E r \in V0Responses :
        IF r \in {"timeout", "non2xx"}
        THEN IF v0_attempt < StopAfterAttempt
             THEN /\ v0_attempt' = v0_attempt + 1
                  /\ UNCHANGED <<rpc, routerVars, fe_resp>>
             ELSE /\ Enter(V0Prompt(rprompt), <<>>)
                  /\ rpc' = "fe_text"
                  /\ UNCHANGED <<v0_attempt, fe_resp>>
        ELSE /\ fe_resp' = Some([has_files |-> (r = "files"),
                                 provider |-> "v0", model |-> V0Model])
             /\ rpc' = "fe_record"
             /\ UNCHANGED <<v0_attempt, routerVars>>
    /\ UNCHANGED <<env, providers, buildVars, jobVars, taskVars,
                   exVars, detectVars, visionVars, codeVars, crudVars, toolVars,
                   rprompt, res_g, res_o, rlogs>>

\* run_tool returns {"text": ..., "provider": ..., "model": ...}
run_tool_return ==
    /\ rpc = "fe_text"
    /\ pc = "done"
    /\ fe_resp' = Some([has_files |-> FALSE, provider |-> result.provider,
                        model |-> result.model])
    /\ Leave
    /\ rpc' = "fe_record"
    /\ UNCHANGED <<env, providers, buildVars, jobVars, taskVars,
                   exVars, detectVars, visionVars, codeVars, crudVars, toolVars,
                   rprompt, res_g, res_o, v0_attempt, rlogs>>

\* lines 169-204: fe_models, used_v0, the files, record(...)
frontend_record ==
    /\ rpc = "fe_record"
    /\ \E written \in BOOLEAN :
        LET used_v0 == \E r \in fe_resp : r.has_files
            models  ==
                IF fe_resp = Nothing
                THEN IF written THEN [used_v0 |-> used_v0] ELSE <<>>
                ELSE LET fe_models == FrontendModels(CHOOSE r \in fe_resp : TRUE)
                     IN  IF written
                         THEN [provider |-> fe_models.provider,
                               model |-> fe_models.model, used_v0 |-> used_v0]
                         ELSE fe_models
        IN  rlogs' = Append(rlogs, [stage |-> "frontend", success |-> written,
                                    models_used |-> models])
    /\ rpc' = "done"
    /\ UNCHANGED <<env, providers, routerVars, buildVars, jobVars, taskVars,
                   exVars, detectVars, visionVars, codeVars, crudVars, toolVars,
                   rprompt, res_g, res_o, v0_attempt, fe_resp>>

ReportEnvs == SUBSET {"GEMINI_API_KEY", "OPENAI_API_KEY", "V0_API_KEY"}

InitReport ==
    /\ env \in ReportEnvs
    /\ \E probe \in ProbeResults : providers = _detect_providers(env, probe)
    /\ RouterIdle
    /\ fast_mode \in BOOLEAN
    /\ bpc = "idle"
    /\ phase = 1
    /\ err = None
    /\ logs = <<>>
    /\ raisedIn = {}
    /\ entered = {}
    /\ report = None
    /\ os_name = "posix"
    /\ fs = {}
    /\ persisted = None
    /\ raisedAt = None
    /\ RestIdle

NextReport ==
    \/ report_begin
    \/ requirements_begin
    \/ res_g_return
    \/ refine_begin
    \/ res_o_return
    \/ requirements_record
    \/ frontend_begin
    \/ run_tool_v0
    \/ run_tool_return
    \/ frontend_record
    \/ PreferenceLoop
    \/ DefaultLoop
    \/ TryCandidate
    \/ PickLabel

SpecReport == InitReport /\ [][NextReport]_vars

-----------------------------------------------------------------------------
(* run_tool, called by /dispatch and /materialize with the name pick_tool   *)
(* gave (adapters.py, main.py, classify.py)                                 *)

\* the names pick_tool returns
ToolNames == {"v0", "stitch", "lovable", "local_codegen"}

\* a files mapping with one entry
OneEntry(path, content) == [p \in {path} |-> content]

\* the stitch branch only: a lovable call goes on to generate_text
Scaffold_StitchOnly(t) ==
    IF t = "stitch"
    THEN Some([files |-> OneEntry("frontend/App.jsx",
                  "export default function App(){return <div>Stitch UI</div>}"),
               provider |-> "stitch", model |-> "free-tier"])
    ELSE Nothing

\* lines 53-57: the static scaffold run_tool returns for the tool, if any
Scaffold(t) ==
    CASE t = "lovable" ->
            Some([files |-> OneEntry("README.md", "# Lovable scaffold\n"),
                  provider |-> "lovable", model |-> "free-tier"])
      [] t = "stitch" ->
            Some([files |-> OneEntry("frontend/App.jsx",
                     "export default function App(){return <div>Stitch UI</div>}"),
                  provider |-> "stitch", model |-> "free-tier"])
      [] OTHER -> Nothing

\* data.get("files") or {} of an answer of v0.dev
V0Files(r) ==
    IF r = "files" THEN OneEntry("src/App.jsx", "x") ELSE [p \in {} |-> ""]

\* lines 53-60, reached at entry or after the failed v0 call: the scaffold,
\* or generate_text(prompt) is entered
AfterV0(t, p) ==
    IF Scaffold(t) # Nothing
    THEN /\ tool_result' = Scaffold(t)
         /\ tpc' = "done"
         /\ UNCHANGED routerVars
    ELSE /\ Enter(p, <<>>)
         /\ tpc' = "text"
         /\ UNCHANGED tool_result

\* run_tool(tool, prompt) is entered (lines 46-47)
run_tool_begin ==
    /\ tpc = "idle"
    /\ pc = "idle"
    /\ \E t \in ToolNames, p \in Prompts :
        /\ tool' = t
        /\ tprompt' = p
        /\ IF t = "v0"
           THEN /\ tpc' = "v0"
                /\ UNCHANGED <<routerVars, tool_result>>
           ELSE AfterV0(t, p)
    /\ v0_attempt' = 1
    /\ called' = {}
    /\ UNCHANGED <<env, providers, buildVars, jobVars, taskVars, exVars,
                   detectVars, visionVars, codeVars, crudVars,
                   rpc, rprompt, res_g, res_o, fe_resp, rlogs>>

\* one HTTP attempt of _v0_generate_frontend (lines 62-75); the RetryError
\* of the last attempt is caught at line 50 and the call goes on at line 53
run_tool_attempt ==
    /\ tpc = "v0"
    /\ called' = called \cup {"v0"}
    /\ \E r \in V0Responses :
        IF r \in {"timeout", "non2xx"}
        THEN IF v0_attempt < StopAfterAttempt
             THEN /\ v0_attempt' = v0_attempt + 1
                  /\ UNCHANGED <<tpc, routerVars, tool_result>>
             ELSE /\ AfterV0(tool, tprompt)
                  /\ UNCHANGED v0_attempt
        ELSE /\ tool_result' = Some([files |-> V0Files(r), provider |-> "v0",
                                     model |-> V0Model])
             /\ tpc' = "done"
             /\ UNCHANGED <<v0_attempt, routerVars>>
    /\ UNCHANGED <<env, providers, buildVars, jobVars, taskVars, exVars,
                   detectVars, visionVars, codeVars, crudVars, tool, tprompt,
                   rpc, rprompt, res_g, res_o, fe_resp, rlogs>>

\* lines 59-60: generate_text has ended; the dict with the key text
run_tool_text ==
    /\ tpc = "text"
    /\ pc \in {"done", "raised"}
    /\ called' = called \cup { tried[a].name : a \in
                     { b \in DOMAIN tried : tried[b].outcome # "nobranch" } }
    /\ IF pc = "done"
       THEN /\ tool_result' = Some([text |-> result.output,
                                    provider |-> result.provider,
                                    model |-> result.model])
            /\ tpc' = "done"
       ELSE /\ tpc' = "raised"
            /\ UNCHANGED tool_result
    /\ Leave
    /\ UNCHANGED <<env, providers, buildVars, jobVars, taskVars, exVars,
                   detectVars, visionVars, codeVars, crudVars, tool, tprompt,
                   reportVars>>

\* the caller has the result (main.py:308, 328) or the exception
run_tool_caller ==
    /\ tpc \in {"done", "raised"}
    /\ tpc' = "idle"
    /\ tool' = None
    /\ tprompt' = <<>>
    /\ called' = {}
    /\ tool_result' = Nothing
    /\ UNCHANGED <<env, providers, routerVars, buildVars, jobVars, taskVars,
                   exVars, detectVars, visionVars, codeVars, crudVars,
                   reportVars>>

ToolEnvs == SUBSET {"GEMINI_API_KEY", "V0_API_KEY"}

InitTool ==
    /\ env \in ToolEnvs
    /\ \E probe \in ProbeResults : providers = _detect_providers(env, probe)
    /\ RouterIdle
    /\ BuildIdle
    /\ RestIdle

NextTool ==
    \/ run_tool_begin
    \/ run_tool_attempt
    \/ run_tool_text
    \/ run_tool_caller
    \/ DefaultLoop
    \/ TryCandidate
    \/ PickLabel
    \/ refresh

SpecTool == InitTool /\ [][NextTool]_vars

-----------------------------------------------------------------------------
(* Helpers of the properties                                               *)

\* s without the elements that occurred earlier in s
RECURSIVE Dedup(_)
Dedup(s) ==
    IF s = <<>> THEN <<>>
    ELSE LET front == Dedup(SubSeq(s, 1, Len(s) - 1))
             last  == s[Len(s)]
         IN  IF last \in Range(front) THEN front ELSE Append(front, last)

NoDuplicates(s) == \A a, b \in DOMAIN s : a # b => s[a] # s[b]

NonDecreasing(s) == \A a, b \in DOMAIN s : a <= b => s[a] <= s[b]

\* the candidate list the spec prescribes for preference list P and map A
ExpectedCandidates(P, A) ==
    Dedup(SelectSeq(P, LAMBDA n : Get(A, n)))
    \o SelectSeq(DefaultOrder, LAMBDA n : Get(A, n) /\ n \notin Range(P))

\* lines 101-109 of generate_text run against one map m
CandidatesOf(P, m) ==
    LET pref == SelectSeq(P, LAMBDA n : Get(m, n))
    IN  pref \o SelectSeq(DefaultOrder, LAMBDA n : Get(m, n) /\ n \notin Range(pref))

\* _pick_provider_for_codegen run against one map m
LabelOf(m) ==
    LET avail == SelectSeq(CodegenLabelOrder, LAMBDA n : Get(m, n))
    IN  IF avail = <<>> THEN <<"local", "baseline">> ELSE <<avail[1], "auto">>

\* p occurs in text as a contiguous piece
Echoes(text, p) ==
    \E a \in 0..(Len(text) - Len(p)) : SubSeq(text, a + 1, a + Len(p)) = p

ListComplete == pc \in {"try", "pick", "done"}

Succeeded == \E a \in DOMAIN tried : tried[a].outcome = "pair"

-----------------------------------------------------------------------------
(* Properties of generate_text (specification Spec)                        *)

\* C1 (as claimed): for every preference list and every availability map the
\* candidate list is the available members of the preference list in its
\* order, then the available members of the default order not in it, and no
\* provider occurs twice.
C1_CandidateOrderNoDuplicates ==
    (ListComplete /\ mapsSeen = {providers}) =>
        /\ strategies = ExpectedCandidates(preference, providers)
        /\ NoDuplicates(strategies)

\* C2: once a candidate's adapter call has returned its (text, tokens), that
\* result is what generate_text returns and no later candidate is handled.
C2_FirstSuccessWins ==
    \A a \in DOMAIN tried :
        tried[a].outcome = "pair" =>
            /\ a = Len(tried)
            /\ pc = "done"
            /\ result.fallback = FALSE
            /\ result.output = tried[a].text
            /\ result.tokens = tried[a].tokens

C2_Witness ==
    /\ pc = "done"
    /\ Succeeded
    /\ Len(tried) < Len(strategies)

\* C3: candidates are handled in list order, and a result with fallback=false
\* carries the name and model of the one candidate whose adapter returned;
\* every candidate before it has failed.
C3_ProviderIsTheSuccessfulCandidate ==
    /\ \A a \in DOMAIN tried : a <= Len(strategies) /\ tried[a].name = strategies[a]
    /\ (pc = "done" /\ result.fallback = FALSE) =>
        /\ tried # <<>>
        /\ tried[Len(tried)].outcome = "pair"
        /\ result.provider = strategies[Len(tried)]
        /\ result.model = ModelOf(strategies[Len(tried)])
        /\ \A a \in 1..(Len(tried) - 1) : tried[a].outcome # "pair"

C3_Witness ==
    /\ pc = "done"
    /\ result.fallback = FALSE
    /\ Len(tried) >= 2
    /\ tried[1].outcome = "RetryError"
    /\ tried[1].name # result.provider

\* C4: no exception leaves generate_text; what it returns has the five
\* fields, and it is the fallback result whenever no candidate succeeded
\* (none available, or all failed).
C4_NeverRaisesAndFallsBack ==
    /\ pc # "raised"
    /\ pc = "done" =>
        /\ DOMAIN result = {"output", "provider", "model", "tokens", "fallback"}
        /\ result.fallback \in BOOLEAN
        /\ result.tokens \in Nat
        /\ result.fallback = ~Succeeded
        /\ (strategies = <<>> => result.fallback)

C4_Witness ==
    /\ pc = "done"
    /\ result.fallback
    /\ \E a \in DOMAIN tried : tried[a].outcome = "bare"
    /\ \E a \in DOMAIN tried : tried[a].outcome = "RetryError"

\* C5 (as claimed): a fallback result echoes the prompt and its provider
\* field is never the name of a real provider.
C5_FallbackLabelIsSynthetic ==
    (pc = "done" /\ result.fallback) =>
        /\ Echoes(result.output, prompt)
        /\ result.provider \notin ProviderIDs

\* C6: a candidate whose adapter raised on every attempt was attempted exactly
\* 3 times, with the 2 sleeps in between non-decreasing and each between
\* 0.5s and 4s, before the loop went on to the next candidate.
C6_ThreeAttemptsWithBackoff ==
    /\ \A a \in DOMAIN tried :
        tried[a].outcome = "RetryError" =>
            /\ tried[a].attempts = 3
            /\ Len(tried[a].delays) = 2
            /\ NonDecreasing(tried[a].delays)
            /\ \A d \in Range(tried[a].delays) : 500 <= d /\ d <= 4000
    /\ pc = "try" => (attempt <= 3 /\ Len(delays) = attempt - 1)

C6_Witness ==
    /\ Len(tried) >= 2
    /\ tried[1].outcome = "RetryError"
    /\ tried[2].attempts >= 1

\* C7 (as claimed): every candidate the router gave up on, whether for a
\* timeout, a non-2xx status or a malformed 2xx body, had been attempted 3
\* times by its adapter.
C7_EveryFailureIsRetried ==
    \A a \in DOMAIN tried :
        tried[a].outcome \in {"RetryError", "bare"} => tried[a].attempts = 3

\* C8 (as claimed): the candidate list and the fallback label of a request
\* are those of one single availability map among the maps the router held
\* during the request.
C8_OneMapPerRequest ==
    pc = "done" =>
        \E m \in mapsSeen :
            /\ strategies = CandidatesOf(preference, m)
            /\ result.fallback => <<result.provider, result.model>> = LabelOf(m)

-----------------------------------------------------------------------------
(* Properties of build (specification SpecBuild)                           *)

BuildOver == bpc \in {"returned", "raised"}

StagesOf(l) == [a \in DOMAIN l |-> l[a].stage]

\* C9 (as claimed): a phase in which an exception was raised has a failed
\* stage record with an error message, every later phase is still run, and
\* a build whose backend phase raised while its frontend phase did not
\* returns a report with a successful frontend stage.
C9_PhaseFailureIsContained ==
    BuildOver =>
        /\ \A p \in raisedIn :
            /\ \E a \in DOMAIN logs :
                /\ logs[a].stage = Phases[p]
                /\ logs[a].success = FALSE
                /\ logs[a].errors # None
            /\ \A q \in (p + 1)..Len(Phases) : q \in entered
        /\ (2 \in raisedIn /\ 3 \notin raisedIn) =>
            /\ bpc = "returned"
            /\ \E a \in DOMAIN logs :
                logs[a].stage = "frontend" /\ logs[a].success = TRUE

\* C10 (as claimed): the log of a build that returned holds exactly one stage
\* record per phase, in the order of the phases.
C10_OneRecordPerPhase ==
    bpc = "returned" => StagesOf(report.logs) = Phases

\* the stage records of a phase that say success
SuccessRecorded(stage) ==
    \E a \in DOMAIN logs : logs[a].stage = stage /\ logs[a].success

\* every file of seq exists under root
AllExist(seq, root) ==
    \A a \in DOMAIN seq : Exists(fs, join(root, seq[a]))

\* C11 (as claimed): whatever phases fail, build returns a report that is
\* also what run_report.json holds; build raises only when creating the run
\* directory or writing the report failed.
C11_OnlyOuterFailuresAbort ==
    /\ bpc = "raised" => raisedAt \in {"mk_run_dir", "report"}
    /\ bpc = "returned" => (report # None /\ persisted = report)

\* C12 (as claimed): once a backend success is recorded backend/main.py,
\* backend/requirements.txt and backend/tests/test_health.py exist, and once
\* a frontend success is recorded every essential frontend file exists.
C12_SuccessfulPhaseHasItsFiles ==
    /\ SuccessRecorded("backend") => AllExist(BackendEssentials, backend_root)
    /\ SuccessRecorded("frontend") => AllExist(FrontendEssentials, frontend_root)

-----------------------------------------------------------------------------
(* Properties of the job registry (specification SpecJobs)                 *)

HoldsLock(t) == lock = Some(t)

\* positions whose step reads or writes _BUILD_JOBS or a job's dict
JobRegistrySteps ==
    {"register", "set_status_completed", "set_finished_at_completed",
     "set_run_dir", "set_status_failed", "set_finished_at_failed", "set_error"}

\* positions inside builder.build
InBuild == {"build", "phases"}

\* C13 (as claimed): once build has returned for a job no step creates or
\* overwrites a file of that job's run directory.
C13_RunImmutableAfterReturn ==
    [][\A j \in JobIds : built[j] = "returned" =>
        \A d \in run_dir[j] :
            { f \in disk' : f.dir = d } = { f \in disk : f.dir = d }]_vars

\* C14: a job is in the registry with status running when its thread is
\* started; a step changes a job's status only from running, to completed
\* after build returned or to failed after build raised.
C14_StatusChangesOnce ==
    /\ [](\A j \in JobIds : jpc[j] = "start" =>
            HasJob(j) /\ jobs[JobIndex(j)].status = "running")
    /\ [][\A a \in DOMAIN jobs :
            /\ a \in DOMAIN jobs'
            /\ jobs'[a].job_id = jobs[a].job_id
            /\ jobs'[a].status # jobs[a].status =>
                /\ jobs[a].status = "running"
                /\ \/ /\ jobs'[a].status = "completed"
                      /\ built[jobs[a].job_id] = "returned"
                   \/ /\ jobs'[a].status = "failed"
                      /\ built[jobs[a].job_id] = "raised"]_vars

\* both threads are over, one job completed and the other failed
C14_Witness ==
    /\ \A j \in JobIds : jpc[j] = "end"
    /\ \E a, b \in DOMAIN jobs :
        jobs[a].status = "completed" /\ jobs[b].status = "failed"

\* C15 (as claimed): a thread that is about to read or write the registry
\* holds the lock, and a thread inside builder.build does not hold it.
C15_RegistryOnlyUnderLock ==
    /\ \A j \in JobIds : jpc[j] \in JobRegistrySteps => HoldsLock(Worker(j))
    /\ ppc = "status_locked" => HoldsLock(StatusPoll)
    /\ ppc = "report_locked" => HoldsLock(ReportPoll)
    /\ ppc = "serialize" /\ pjob.kind \in {"job", "latest"} => HoldsLock(StatusPoll)
    /\ \A j \in JobIds : jpc[j] \in InBuild => ~HoldsLock(Worker(j))

-----------------------------------------------------------------------------
(* Properties of the /task response (specification SpecTask)               *)

\* C17 (as claimed): every response of /task has a fallback or a success
\* field.
C17_ResponseCarriesFlag ==
    \A r \in task_response :
        "fallback" \in DOMAIN r \/ "success" \in DOMAIN r

-----------------------------------------------------------------------------
(* Properties of the extraction (specification SpecExtract)                *)

ExtractOver == ex_pc \in {"returned", "raised"}

\* the text is directly a JSON object
DirectObject(t) == ~_parse_files_json(t).raises

\* the values of the fenced blocks of t whose interior is JSON: a block opens
\* with three backticks (optionally tagged json) and a newline and closes at
\* later three backticks
BlockValues(t) ==
    { v \in { json_loads(SubSeq(t, ContentStart(t, sq[1]), sq[2] - 1)) :
                sq \in { sq \in (1..Len(t)) \X (1..Len(t)) :
                            /\ ContentStart(t, sq[1]) # 0
                            /\ sq[2] \in Closings(t, ContentStart(t, sq[1])) } } :
        v.ok }

\* C18: when the text is json.dumps(M) of a mapping M of str to str the
\* extraction returns, and the files it returns are exactly M.
C18_ExtractRoundTrip ==
    \A M \in Mappings :
        (ex_text = json_dumps(M) /\ ex_pc # "idle") =>
            ex_pc = "returned" /\ ex_files = Some(DictOf(M))

\* the extraction has returned two files whose contents need escaping
C18_Witness ==
    /\ ex_pc = "returned"
    /\ \E M \in Mappings :
        /\ Len(M) = MaxFiles
        /\ \A a \in DOMAIN M : M[a][2] \in { <<"\"">>, <<"\n", "}">> }
        /\ ex_text = json_dumps(M)
        /\ ex_files = Some(DictOf(M))

\* C19 (as claimed): for a text that is not directly a JSON object and has
\* no fenced block whose interior is JSON the extraction returns the empty
\* mapping and does not raise.
C19_NoJsonGivesEmptyMapping ==
    (ExtractOver /\ ~DirectObject(ex_text) /\ BlockValues(ex_text) = {}) =>
        ex_pc = "returned" /\ ex_files = Some(PyDict({}))

\* C20 (as claimed): the fence search runs only after the direct parse
\* failed, and then a text with a fenced block whose interior is a JSON
\* object gives the mapping of such a block.
C20_FencedObjectIsExtracted ==
    /\ ex_pc = "except" => ~DirectObject(ex_text)
    /\ (ExtractOver /\ ~DirectObject(ex_text)
            /\ \E v \in BlockValues(ex_text) : v.type = "dict") =>
        /\ ex_pc = "returned"
        /\ \E v \in BlockValues(ex_text) :
            v.type = "dict" /\ ex_files = Some(PyDict(v.members))

-----------------------------------------------------------------------------
(* Dispatch of the candidates                                              *)

\* C21: every candidate identifier has exactly one provider adapter, and
\* handling a candidate ends in that adapter's provider result or in that
\* adapter's failure: no candidate is passed over without a call.
C21_EveryCandidateHasAnAdapter ==
    /\ Range(strategies) \subseteq Adapters
    /\ \A i \in DOMAIN tried :
          /\ tried[i].name \in Adapters
          /\ tried[i].outcome \in {"pair", "bare", "RetryError"}
          /\ tried[i].attempts >= 1

-----------------------------------------------------------------------------
(* The availability map                                                    *)

\* the environment variables that hold the secret of a provider
Secrets(n) ==
    CASE n = "openai"     -> {"OPENAI_API_KEY"}
      [] n = "gemini"     -> {"GEMINI_API_KEY"}
      [] n = "mistral"    -> {"MISTRAL_API_KEY"}
      [] n = "groq"       -> {"GROQ_API_KEY"}
      [] n = "hf"         -> {"HF_API_KEY", "HUGGINGFACE_API_KEY"}
      [] n = "perplexity" -> {"PERPLEXITY_API_KEY"}
      [] n = "v0"         -> {"V0_API_KEY", "V0_DEV_API_KEY"}

CredentialGated ==
    {"openai", "gemini", "mistral", "groq", "hf", "perplexity", "v0"}

Detected == dpc = "done"

\* C22: the map _detect_providers computes marks a credential-gated
\* provider available iff its secret is present in the environment, ollama
\* available iff OLLAMA_BASE_URL is set or the probe succeeded, and lovable
\* and stitch available always.
C22_MapFollowsEnvironmentAndProbe ==
    Detected =>
        /\ DOMAIN providers = ProviderIDs
        /\ \A n \in CredentialGated :
              providers[n] <=> (Secrets(n) \cap env # {})
        /\ providers["ollama"] <=>
              ("OLLAMA_BASE_URL" \in env \/ probed = Some("ok"))
        /\ providers["lovable"]
        /\ providers["stitch"]

\* a map was computed with the secret of one provider only, and the probe
\* alone made ollama available
C22_Witness ==
    /\ Detected
    /\ env = {"HUGGINGFACE_API_KEY"}
    /\ probed = Some("ok")
    /\ providers["hf"] /\ providers["ollama"] /\ ~providers["openai"]

\* C23 as stated: _detect_providers and refresh never raise, and after a
\* failed probe ollama is unavailable while every other entry is what a
\* successful probe gives.
C23_FailedProbeMakesOllamaUnavailable ==
    /\ dpc # "raised"
    /\ (Detected /\ probed # Some("ok")) =>
          /\ ~providers["ollama"]
          /\ \A n \in ProviderIDs \ {"ollama"} :
                providers[n] = _detect_providers(env, "ok")[n]

\* C23 amended: _detect_providers and refresh never raise, and after a
\* failed probe ollama is available iff OLLAMA_BASE_URL is set while every
\* other entry is what a successful probe gives.
C23_FailedProbeLeavesOverride ==
    /\ dpc # "raised"
    /\ (Detected /\ probed # Some("ok")) =>
          /\ providers["ollama"] <=> ("OLLAMA_BASE_URL" \in env)
          /\ \A n \in ProviderIDs \ {"ollama"} :
                providers[n] = _detect_providers(env, "ok")[n]

\* the probe raised, the map was computed all the same, and ollama is
\* unavailable in it
C23_Witness ==
    /\ Detected
    /\ probed = Some("exception")
    /\ env = {"GEMINI_API_KEY"}
    /\ ~providers["ollama"] /\ providers["gemini"]

-----------------------------------------------------------------------------
(* Frame of the requests, and image classification                         *)

\* the locals of the requests the router is serving
requestVars == <<pc, prompt, preference, idx, strategies, k, attempt, delays,
                 tried, result, visionVars, exVars, codeVars>>

\* C24: generate_text, generate_code and classify_image never modify the
\* availability map or any other router state: a step of a request leaves
\* the map as it is, and a step that changes the map is the assignment of a
\* newly computed, complete map by refresh().
C24_OnlyRefreshAssignsTheMap ==
    [][ /\ (requestVars' # requestVars => providers' = providers)
        /\ (providers' # providers =>
               /\ \E probe \in ProbeResults :
                     providers' = _detect_providers(env, probe)
               /\ DOMAIN providers' = ProviderIDs)
        /\ env' = env ]_vars

\* the hosted classifier failed on its three attempts, the baseline answered,
\* and the map still holds hf as available
C24_Witness ==
    /\ cpc = "done"
    /\ hosted = "RetryError"
    /\ cattempt = StopAfterAttempt
    /\ hf_seen
    /\ Get(providers, "hf")
    /\ \E r \in cls_result : r.fallback

\* 32 * 32 * 3 times the threshold t
Scaled(t) == t * (ThumbSide * ThumbSide * 3)

\* C25: classify_image never raises on a decoded image and always returns
\* a label: the hosted classifier's result with fallback=false iff hf is
\* available and its call succeeds, and otherwise fallback=true with the
\* label cow when the average brightness is below 128 and cat otherwise.
C25_ClassifyAlwaysAnswers ==
    /\ cpc # "raised"
    /\ cpc = "done" =>
          \E img \in image, r \in cls_result :
              /\ r.label \in {HostedLabel, "cow", "cat"}
              /\ ~r.fallback <=> (hf_seen /\ hosted = "pair")
              /\ ~r.fallback =>
                    /\ r.label = HostedLabel
                    /\ r.confidence = HostedScore
                    /\ r.provider = "hf"
              /\ r.fallback =>
                    /\ ChannelSum(img) < Scaled(128) => r.label = "cow"
                    /\ ChannelSum(img) >= Scaled(128) => r.label = "cat"

\* hf was available, its call failed three times, and the baseline labelled
\* an image whose average brightness is exactly 128
C25_Witness ==
    /\ cpc = "done"
    /\ hf_seen
    /\ hosted = "RetryError"
    /\ image = Some([base |-> <<128, 128, 128>>, odd |-> <<128, 128, 128>>])
    /\ \E r \in cls_result : r.fallback /\ r.label = "cat"

-----------------------------------------------------------------------------
(* Token accounting                                                        *)

\* C26: the tokens field of every generation result is the total token
\* count the provider reported when the response carries a positive one,
\* otherwise floor(len(text) / 4) of the returned text; the offline fallback
\* reports floor(len(output) / 4) of its output.
C26_TokensReportedOrEstimated ==
    pc = "done" =>
        IF result.fallback
        THEN result.tokens = Len(result.output) \div 4
        ELSE LET h == tried[Len(tried)] IN
             /\ h.outcome = "pair"
             /\ result.output = h.text
             /\ h.usage > 0 => result.tokens = h.usage
             /\ h.usage <= 0 => result.tokens = Len(result.output) \div 4

\* a provider answered and reported a total that is not the estimate
C26_Witness ==
    /\ pc = "done"
    /\ ~result.fallback
    /\ tried[Len(tried)].usage = 9
    /\ result.tokens = 9
    /\ Len(result.output) \div 4 # 9

-----------------------------------------------------------------------------
(* generate_code against generate_text                                     *)

\* C27: for every availability map, generate_code(instruction) tries the
\* candidates generate_text would try, in its order, for the wrapped prompt
\* without a preference list, and returns that routing result (output,
\* provider, model, tokens, fallback) with a files field added.
C27_CodeRoutesAsText ==
    /\ (gc_pc # "idle" /\ ListComplete /\ mapsSeen = {providers}) =>
          strategies = CandidatesOf(<<>>, providers)
    /\ gc_pc # "raised"
    /\ gc_pc = "done" =>
          \E r \in gc_result :
              /\ DOMAIN r = DOMAIN result \cup {"files"}
              /\ \A f \in DOMAIN result : r[f] = result[f]

-----------------------------------------------------------------------------
(* CRUD of students, events and requirements                               *)

\* the dict get returns for the fields of payload p
Created(i, p) ==
    [id |-> i,
     columns |-> [c \in DOMAIN p |->
                    IF c = "content" THEN { DictOf(M) : M \in p[c] } ELSE p[c]]]

\* C28 as stated: after create returns an id, get(id) returns the created
\* fields until that record is deleted; update and delete of an existing id
\* return success=true; after the delete, get(id) reports not found and
\* update or delete of that id return success=false.
C28_CrudLifecycle ==
    \A a \in answered :
        /\ (a.op = "get" /\ a.live) =>
              \E p \in made : a.body = Created(a.id, p)
        /\ (a.op \in {"update", "delete"} /\ a.live) => a.body.success
        /\ (a.op = "get" /\ a.after_delete) => a.body = NotFound
        /\ (a.op \in {"update", "delete"} /\ a.after_delete) => ~a.body.success

\* C28 amended: get(id) returns the created fields until the record is
\* updated or deleted; update and delete of an existing id return
\* success=true; after the delete, until a later create is given the same id,
\* get(id) reports not found and update or delete of that id return
\* success=false.
C28_CrudLifecycleUntilReuse ==
    \A a \in answered :
        /\ (a.op = "get" /\ a.live /\ ~updated) =>
              \E p \in made : a.body = Created(a.id, p)
        /\ (a.op \in {"update", "delete"} /\ a.live) => a.body.success
        /\ (a.op = "get" /\ a.after_delete /\ ~a.live) => a.body = NotFound
        /\ (a.op \in {"update", "delete"} /\ a.after_delete /\ ~a.live) =>
              ~a.body.success

\* a requirement was created with a content that needs escaping, deleted,
\* and a later get of its id reports not found
C28_Witness ==
    /\ table = "requirements"
    /\ deleted
    /\ made = Nothing
    /\ \E a \in answered :
          a.op = "get" /\ a.after_delete /\ ~a.live /\ a.body = NotFound

-----------------------------------------------------------------------------
(* Bound on the provider calls of one request                              *)

\* HTTP attempts made for the candidates handled so far
RECURSIVE AttemptsOf(_)
AttemptsOf(t) ==
    IF t = <<>> THEN 0
    ELSE t[Len(t)].attempts + AttemptsOf(SubSeq(t, 1, Len(t) - 1))

Available(m) == { n \in DOMAIN m : m[n] }

\* C29: for every availability map, preference list and pattern of adapter
\* failures, generate_text makes at most 3 HTTP attempts per candidate and
\* tries each candidate at most once, so one request makes at most 3 times
\* the number of available providers calls.
C29_CallsAreBounded ==
    /\ attempt <= 3
    /\ \A a \in DOMAIN tried : tried[a].attempts <= 3
    /\ NoDuplicates([a \in DOMAIN tried |-> tried[a].name])
    /\ mapsSeen = {providers} =>
          AttemptsOf(tried) <= 3 * Cardinality(Available(providers))

-----------------------------------------------------------------------------
(* The models of the build report                                          *)

\* C30: the provider and model the build records for a stage are those that
\* produced the stage's output: the gemini and openai entries of the
\* requirements stage are models of Gemini and of OpenAI, and a frontend
\* stage recorded with provider v0 had its generation answered by v0.
C30_RecordedModelsProducedTheOutput ==
    \A a \in DOMAIN rlogs :
        LET m == rlogs[a].models_used IN
        /\ (rlogs[a].stage = "requirements" /\ "gemini" \in DOMAIN m) =>
              /\ m.gemini \in {None, ModelOf("gemini")}
              /\ m.openai \in {None, ModelOf("openai")}
        /\ (rlogs[a].stage = "frontend" /\ "provider" \in DOMAIN m) =>
              (m.provider = "v0" => \E r \in fe_resp : r.provider = "v0")

-----------------------------------------------------------------------------
(* run_tool                                                                *)

\* C31: run_tool never raises, whatever the tool name: every call that has
\* ended has a result; after the v0 call has failed on its last attempt the
\* call has gone on to the text-generation path and its result carries the
\* text; for lovable and stitch the result is the tool's static files
\* scaffold and no provider was sent a request at any moment of the call.
C31_RunToolAlwaysReturns ==
    /\ tpc # "raised"
    /\ tpc = "done" => tool_result # Nothing
    /\ (tool = "v0" /\ tpc \in {"text", "done"}) =>
          \/ /\ tpc = "done"
             /\ \E r \in tool_result :
                   "files" \in DOMAIN r /\ r.provider = "v0"
          \/ /\ v0_attempt = StopAfterAttempt
             /\ tpc = "done" =>
                   \E r \in tool_result :
                       "text" \in DOMAIN r /\ r.provider # "v0"
    /\ tool \in {"lovable", "stitch"} =>
          /\ called = {}
          /\ pc = "idle"
          /\ tpc = "done"
          /\ \E r \in tool_result :
                /\ "files" \in DOMAIN r
                /\ DOMAIN r.files # {}
                /\ r.provider = tool

\* the v0 call failed three times and run_tool returned the routed text
C31_Witness ==
    /\ tpc = "done"
    /\ tool = "v0"
    /\ "v0" \in called
    /\ \E r \in tool_result : "text" \in DOMAIN r

-----------------------------------------------------------------------------
(* The files value of generate_code                                        *)

\* C32: whenever generate_code returns, its files value is a mapping (a
\* dict, possibly empty) whose keys and values are all strings, whether it
\* came from parsing the whole text or from a fenced block.
C32_FilesIsAMappingOfStrings ==
    ex_pc = "returned" =>
        \A f \in ex_files :
            /\ f.type = "dict"
            /\ \A m \in f.members : m[2] = "str"

-----------------------------------------------------------------------------
(* The fields of a job (specification SpecJobs)                            *)

\* finished_at is null iff status is running, error is non-null iff status
\* is failed, run_dir is non-null only if status is completed
FieldsAgree(job) ==
    /\ job.finished_at = Nothing <=> job.status = "running"
    /\ job.error # Nothing <=> job.status = "failed"
    /\ job.run_dir # Nothing => job.status = "completed"

\* no thread is inside a with-block that writes the registry
NoWriterInside == \A j \in JobIds : ~HoldsLock(Worker(j))

\* C33 (as claimed): every job the registry shows has fields that agree with
\* its status, in the registry whenever no thread is inside a with-block
\* writing it, and in every response of /sdlc/status.
C33_JobFieldsAgreeWithStatus ==
    /\ NoWriterInside => \A a \in DOMAIN jobs : FieldsAgree(jobs[a])
    /\ \A r \in presp : \A job \in r.job : FieldsAgree(job)

\* the thread of job j was started
Started(j) == jpc[j] \notin {"idle", "register_wait", "register", "start"}

\* C34: every job whose thread was started reaches status completed or
\* failed (builder.build is taken to terminate, by returning or raising),
\* also when the write of status.json fails.
C34_JobsEnd ==
    \A j \in JobIds :
        Started(j) ~>
            (HasJob(j) /\ jobs[JobIndex(j)].status \in {"completed", "failed"})

\* a job is completed although _run_build could not write status.json
C34_Witness ==
    \E j \in JobIds :
        /\ built[j] = "returned"
        /\ ~Wrote(j)
        /\ jpc[j] = "end"
        /\ jobs[JobIndex(j)].status = "completed"

-----------------------------------------------------------------------------
(* The response of /sdlc/report (specification SpecJobs)                   *)

\* the response of the last /sdlc/report request is the run report
ReportReturned == \E r \in presp : r.kind = "report"

\* C35: /sdlc/report called with a job_id only returns the run report only
\* for a job whose status is completed, whose build had returned and had
\* written run_report.json into the job's run directory; for a job that is
\* running, failed or not in the registry the response is an error value.
C35_ReportOnlyWhenCompleted ==
    /\ ReportReturned =>
          \A j \in parg :
              /\ HasJob(j)
              /\ jobs[JobIndex(j)].status = "completed"
              /\ built[j] = "returned"
              /\ \E f \in disk :
                    /\ f.dir \in jobs[JobIndex(j)].run_dir
                    /\ f.path = "run_report.json"
    /\ \A r \in presp :
          (/\ ppc = "idle"
           /\ parg # Nothing
           /\ \A j \in parg :
                 \/ ~HasJob(j)
                 \/ jobs[JobIndex(j)].status \in {"running", "failed"}) =>
              r.kind \in {"missing_job_id_or_run_dir", "report_not_found"}

\* the report of a completed job was returned
C35_Witness ==
    /\ ReportReturned
    /\ \E j \in parg : HasJob(j) /\ jobs[JobIndex(j)].status = "completed"

====
